---- MODULE Spec2Model ----
(***************************************************************************)
(* Pointgram: manual point correspondences across photographs, turned into *)
(* COLMAP solver input and mapped back (src/main.py, MainWindow), with the *)
(* marker item of src/graphics_widgets.py.                                 *)
(*                                                                         *)
(* Coordinates (QPointF, Python floats) are integers counting a fixed      *)
(* sub-pixel unit, so that the float32 conversion of the keypoint arrays   *)
(* is a rounding to 24 significant bits and not the identity.              *)
(***************************************************************************)
EXTENDS Integers, Sequences, FiniteSets, TLC

\* ------------------------------------------------------------------ bounds
\* images of a drawn project (image indices 0..MaxImages-1)
MaxImages == 2
\* track ids of a drawn project (ids 0..MaxTracks-1)
MaxTracks == 3
\* create_new_point_set calls followed in one behaviour
MaxCreates == 2

\* ------------------------------------------------------------ Python values
None == [tag |-> "None"]

\* a value of type str (str(x), or a display name)
PyStr(x) == [type |-> "str", text |-> x]
\* a value of a numeric type
PyNum(n) == [type |-> "number", val |-> n]

\* an exception leaving a call, and a normal return
Raise(exc) == [ok |-> FALSE, exc |-> exc]
Return(v) == [ok |-> TRUE, val |-> v]

\* point_data is a dict whose iteration order is its insertion order: the
\* sequence of its items [k |-> set id, v |-> observations].
Keys(d) == {d[n].k : n \in DOMAIN d}
KeySeq(d) == [n \in DOMAIN d |-> d[n].k]
Get(d, key) == d[CHOOSE n \in DOMAIN d : d[n].k = key].v
\* d[key] = v: in place for a key the dict holds, appended for a new one
Put(d, key, v) ==
    IF key \in Keys(d)
    THEN [n \in DOMAIN d |-> IF d[n].k = key THEN [k |-> key, v |-> v] ELSE d[n]]
    ELSE Append(d, [k |-> key, v |-> v])
\* del d[key]
Del(d, key) == SelectSeq(d, LAMBDA item : item.k # key)

\* sorted(S) for a finite set of integers
RECURSIVE sorted(_)
sorted(S) ==
    IF S = {} THEN <<>>
    ELSE LET m == CHOOSE x \in S : \A y \in S : x <= y
         IN <<m>> \o sorted(S \ {m})

Range(s) == {s[n] : n \in DOMAIN s}

\* ------------------------------------------------------------- environment
\* The files of the environment: file k of one directory, an image Qt can
\* read for k >= 0, and file -1, which Qt cannot read.
PathOf(k) == [dir |-> "a", base |-> k, readable |-> k >= 0]

\* sub-pixel units per pixel
Unit == 2^22
\* QPixmap(path).width(), .height(): every readable image of the pool is 8 x 6
PixmapSize(path) == <<8, 6>>

\* scene positions a click or a drag can end on: two inside the image, the
\* second with more than 24 significant bits, and one outside of it
P1 == <<2 * Unit, 3 * Unit>>
P2 == <<4 * Unit + 1, 5 * Unit + 3>>
POut == <<9 * Unit, 1 * Unit>>
ScenePositions == {P1, P2, POut}

\* pixmap_item.boundingRect().contains(scene_pos)
BoundingRectContains(size, p) ==
    /\ 0 <= p[1] /\ p[1] <= size[1] * Unit
    /\ 0 <= p[2] /\ p[2] <= size[2] * Unit

\* ------------------------------------------------------------------- state
VARIABLES
    image_paths,            \* list of the project's image paths
    current_image_index,    \* index of the image last displayed, or -1
    pixmap_item,            \* TRUE while a pixmap is in the scene
    selected_row,           \* image_list_widget.currentRow()
    scene_markers,          \* the markers in the scene, as (set id, image index)
    tool_mode,              \* "add_move" | "delete": the checked tool action
    point_data,             \* {set id: {image index: (coords, marker)}}
    point_set_names,        \* {set id: display name}
    active_point_set_index, \* the active set id, or -1
    next_point_set_id,      \* _next_point_set_id
    point_set_list,         \* the set ids listed in point_set_list_widget
    point_set_row,          \* the set id of its current item, or -1
    image_dimensions,       \* {image index: (width, height)}
    calibration_results,    \* None, or the result of the last run
    reprojection_errors,    \* {set id: {image index: error}}
    keypoint_maps,          \* {image index: {set id: keypoint index}}
    keypoints_per_image,    \* the keypoint lists of the last database build
    colmap_db,              \* the COLMAP database file of the last build
    project_file,           \* the project file last written, or None
    gltf_file,              \* the glTF file last written, or None
    view,                   \* the ZoomableView: transform and gesture fields
    outcome,                \* the last report of the last handler
    raised,                 \* the exception that left the last handler, or "none"
    called,                 \* the last handler and its arguments
    issued_ids,             \* history: the ids create_new_point_set allocated
    deleted_ids             \* history: the ids of the sets deleted as empty

vars == <<image_paths, current_image_index, pixmap_item, selected_row,
          scene_markers, tool_mode, point_data, point_set_names,
          active_point_set_index, next_point_set_id, point_set_list,
          point_set_row, image_dimensions, calibration_results,
          reprojection_errors, keypoint_maps, keypoints_per_image, colmap_db,
          project_file, gltf_file, view,
          outcome, raised, called, issued_ids, deleted_ids>>

\* the window's state as one value, for the handlers to transform
Self ==
    [image_paths |-> image_paths, current_image_index |-> current_image_index,
     pixmap_item |-> pixmap_item, selected_row |-> selected_row,
     scene_markers |-> scene_markers, tool_mode |-> tool_mode,
     point_data |-> point_data, point_set_names |-> point_set_names,
     active_point_set_index |-> active_point_set_index,
     next_point_set_id |-> next_point_set_id, point_set_list |-> point_set_list,
     point_set_row |-> point_set_row, image_dimensions |-> image_dimensions,
     calibration_results |-> calibration_results,
     reprojection_errors |-> reprojection_errors, keypoint_maps |-> keypoint_maps,
     keypoints_per_image |-> keypoints_per_image, colmap_db |-> colmap_db,
     project_file |-> project_file, gltf_file |-> gltf_file, view |-> view,
     outcome |-> outcome, raised |-> raised,
     issued_ids |-> issued_ids, deleted_ids |-> deleted_ids]

\* the state a handler leaves behind
Apply(s) ==
    /\ image_paths' = s.image_paths
    /\ current_image_index' = s.current_image_index
    /\ pixmap_item' = s.pixmap_item
    /\ selected_row' = s.selected_row
    /\ scene_markers' = s.scene_markers
    /\ tool_mode' = s.tool_mode
    /\ point_data' = s.point_data
    /\ point_set_names' = s.point_set_names
    /\ active_point_set_index' = s.active_point_set_index
    /\ next_point_set_id' = s.next_point_set_id
    /\ point_set_list' = s.point_set_list
    /\ point_set_row' = s.point_set_row
    /\ image_dimensions' = s.image_dimensions
    /\ calibration_results' = s.calibration_results
    /\ reprojection_errors' = s.reprojection_errors
    /\ keypoint_maps' = s.keypoint_maps
    /\ keypoints_per_image' = s.keypoints_per_image
    /\ colmap_db' = s.colmap_db
    /\ project_file' = s.project_file
    /\ gltf_file' = s.gltf_file
    /\ view' = s.view
    /\ outcome' = s.outcome
    /\ raised' = s.raised
    /\ issued_ids' = s.issued_ids
    /\ deleted_ids' = s.deleted_ids

\* the state a handler starts from: nothing reported, nothing raised
Enter(s) == [s EXCEPT !.outcome = "none", !.raised = "none"]

\* a status bar message, a message box or a printed line
Report(s, msg) == [s EXCEPT !.outcome = msg]

\* a slot run by a signal emitted inside a handler: an exception leaving the
\* slot is printed by the binding and does not reach the emitter
Emitted(s) == [s EXCEPT !.raised = "none"]

\* a database file without content
EmptyDb == [cameras |-> <<>>, images |-> <<>>, keypoints |-> <<>>, matches |-> <<>>]

\* ------------------------------------------------------------ marker items
MARKER_SIZE == 10

\* CrosshairMarker.__init__(position, set_index, size): _update_path divides
\* size by 2.0, which raises TypeError for a str.
CrosshairMarker(position, set_index, size) ==
    IF size.type = "str"
    THEN Raise("TypeError")
    ELSE Return([pos |-> position, set_index |-> set_index, size |-> size.val])

\* point_set_names.get(set_index, str(set_index))
set_name_of(names, set_index) ==
    IF set_index \in DOMAIN names THEN PyStr(names[set_index]) ELSE PyStr(set_index)

\* (variant) the marker built with the default size
MarkerOfDefaultSize(s, position, set_index) ==
    CrosshairMarker(position, set_index, PyNum(MARKER_SIZE))

\* create_marker_item passes the name as the third positional argument
create_marker_item(s, position, set_index) ==
    CrosshairMarker(position, set_index, set_name_of(s.point_set_names, set_index))

\* style_marker calls marker.set_text, which CrosshairMarker does not define
style_marker(marker, set_index) == Raise("AttributeError")

\* get_markers_for_image: the sets with an observation in the image, in the
\* order of the dict
get_markers_for_image(pd, image_index) ==
    SelectSeq(KeySeq(pd), LAMBDA k : image_index \in DOMAIN Get(pd, k))

\* the loop of redraw_markers_and_errors_for_current_image: each marker is
\* added to the scene and then styled
RECURSIVE RedrawLoop(_, _)
RedrawLoop(s, markers) ==
    IF markers = <<>> THEN s
    ELSE LET set_idx == Head(markers)
             shown == [s EXCEPT !.scene_markers =
                          @ \cup {<<set_idx, s.current_image_index>>}]
             styled == style_marker(
                 Get(s.point_data, set_idx)[s.current_image_index].marker, set_idx)
         IN  IF ~styled.ok
             THEN [shown EXCEPT !.raised = styled.exc]
             ELSE RedrawLoop(shown, Tail(markers))

redraw_markers_and_errors_for_current_image(s) ==
    IF s.current_image_index < 0 THEN s
    ELSE RedrawLoop(s, get_markers_for_image(s.point_data, s.current_image_index))

\* the (coords, marker) pair of an observation whose marker item exists
Observation(set_index, coords) ==
    [coords |-> coords,
     marker |-> [pos |-> coords, set_index |-> set_index, size |-> MARKER_SIZE]]

\* ------------------------------------------------------------ ZoomableView
\* Scale factors are kept in hundredths, rounded to the nearest.
TARGET_PRECISION_ZOOM_FACTOR == 400
PRECISION_ZOOM_THRESHOLD == 1

\* a * b and a / b in hundredths
Times(a, b) == (a * b + 50) \div 100
Over(a, b) == (a * 100 + b \div 2) \div b

\* A transform of the view is the scale factor it was last set to and the
\* wheel notches turned since (up less down); a notch up and a notch down
\* cancel.
QTransform(scale) == [scale |-> scale, notches |-> 0]

\* transform.m11(): the scale factor of a transform
RECURSIVE m11(_)
m11(transform) ==
    IF transform.notches = 0 THEN transform.scale
    ELSE IF transform.notches > 0
    THEN Times(m11([transform EXCEPT !.notches = @ - 1]), 115)
    ELSE Times(m11([transform EXCEPT !.notches = @ + 1]), Over(100, 115))

\* ZoomableView.__init__: the identity transform, no gesture under way.
\* buttons (the mouse buttons held) and emitted (the signals the last event
\* handler emitted) are kept beside the fields of the class.
ZoomableView ==
    [transform |-> QTransform(100), is_middle_button_panning |-> FALSE,
     dragged_marker |-> None, is_placing_new_marker |-> FALSE,
     original_transform_before_action |-> None,
     buttons |-> {}, emitted |-> <<>>]

\* the viewport of the view
ViewportSize == <<32, 24>>

\* view.fitInView(pixmap_item, Qt.KeepAspectRatio)
fitInView(s, size) ==
    LET across == Over(ViewportSize[1] * 100, size[1] * 100)
        down == Over(ViewportSize[2] * 100, size[2] * 100)
    IN  [s EXCEPT !.view.transform = QTransform(IF across < down THEN across ELSE down)]

\* wheelEvent: the view is scaled by 1.15 or by 1 / 1.15
wheelEvent(s, angle_delta) ==
    [s EXCEPT !.view.transform.notches = IF angle_delta > 0 THEN @ + 1 ELSE @ - 1]

\* the start of a drag or a placement: the transform is saved and the view
\* scaled by TARGET_PRECISION_ZOOM_FACTOR / current_scale, which sets its
\* scale factor to the target, unless it is that close already
PrecisionZoom(v) ==
    LET saved == [v EXCEPT !.original_transform_before_action = v.transform]
        current_scale == m11(saved.original_transform_before_action)
    IN  IF current_scale < TARGET_PRECISION_ZOOM_FACTOR - PRECISION_ZOOM_THRESHOLD
        THEN [saved EXCEPT !.transform = QTransform(TARGET_PRECISION_ZOOM_FACTOR)]
        ELSE saved

\* the end of a drag or a placement: the saved transform is set again
RestoredTransform(v) ==
    IF v.original_transform_before_action # None
    THEN [v EXCEPT !.transform = v.original_transform_before_action,
                   !.original_transform_before_action = None]
    ELSE v

\* signal.emit(...): the slot has run, and the signal is noted
Emit(after_slot, signal) ==
    [Emitted(after_slot) EXCEPT !.view.emitted = Append(@, signal)]

\* ------------------------------------------------------------ image handling
clear_scene_and_pixmap(s) ==
    [s EXCEPT !.pixmap_item = FALSE, !.scene_markers = {}]

\* display_image(index)
display_image(s, index) ==
    IF ~(0 <= index /\ index < Len(s.image_paths))
    THEN clear_scene_and_pixmap(s)
    ELSE LET image_path == s.image_paths[index + 1]
             cleared == clear_scene_and_pixmap(s)
         IN  IF ~image_path.readable
             THEN Report(cleared, "Error: Could not load image")
             ELSE LET shown == [cleared EXCEPT
                          !.image_dimensions =
                              (index :> PixmapSize(image_path)) @@ @,
                          !.current_image_index = index,
                          !.pixmap_item = TRUE]
                      drawn == redraw_markers_and_errors_for_current_image(shown)
                  IN  IF drawn.raised # "none" THEN drawn
                      ELSE IF ~s.pixmap_item
                      THEN Report(fitInView(drawn, PixmapSize(image_path)), "Displayed")
                      ELSE Report(drawn, "Displayed")

\* on_image_selection_changed for the item of row index
on_image_selection_changed(s, index) ==
    IF 0 <= index /\ index < Len(s.image_paths) /\ index # s.current_image_index
    THEN display_image(s, index)
    ELSE s

\* image_list_widget.setCurrentRow(row): currentItemChanged is emitted when
\* the current item changes
ImageListSetCurrentRow(s, row) ==
    IF row = s.selected_row THEN s
    ELSE Emitted(on_image_selection_changed([s EXCEPT !.selected_row = row], row))

\* update_image_list: the list is cleared and filled again, and the row that
\* was current, or else row 0, is made current again
update_image_list(s) ==
    LET row_before == s.selected_row
        cleared == [s EXCEPT !.selected_row = -1]
    IN  IF 0 <= row_before /\ row_before < Len(s.image_paths)
        THEN ImageListSetCurrentRow(cleared, row_before)
        ELSE IF s.image_paths # <<>>
        THEN ImageListSetCurrentRow(cleared, 0)
        ELSE cleared

\* update_point_set_list: filled from the store with the signals blocked, the
\* item of the active set made current
update_point_set_list(s) ==
    [s EXCEPT !.point_set_list = Keys(s.point_data),
              !.point_set_row = IF s.active_point_set_index \in Keys(s.point_data)
                                THEN s.active_point_set_index ELSE -1]

\* open_images: accepted and selected_files are the file dialog's answer
open_images(s, accepted, selected_files) ==
    IF ~accepted \/ selected_files = <<>> THEN s
    ELSE LET new_paths ==
                 SelectSeq(selected_files, LAMBDA p : p \notin Range(s.image_paths))
             start_index == Len(s.image_paths)
         IN  IF new_paths = <<>>
             THEN Report(s, "Selected images already loaded.")
             ELSE ImageListSetCurrentRow(
                      update_image_list([s EXCEPT !.image_paths = @ \o new_paths]),
                      start_index)

\* activate_add_point_tool, activate_delete_point_tool: the tool action the
\* user triggered is the checked one of its group, and the view's mode
activate_tool(s, tool) ==
    Report([s EXCEPT !.tool_mode = tool], "Tool Activated")

\* ------------------------------------------------------ CorrespondenceStore
\* (faulty variant) the counter is not advanced
StuckNext(n) == n

\* _next_point_set_id += 1
AllocatedNext(n) == n + 1

\* the history entry of an allocation: the id, whether it was never used
\* before in the project, and whether a set had been deleted before
Issued(s, id) ==
    [id |-> id,
     fresh |-> id \notin (Keys(s.point_data) \cup s.deleted_ids
                            \cup {s.issued_ids[n].id : n \in DOMAIN s.issued_ids}),
     after_delete |-> s.deleted_ids # {}]

\* create_new_point_set(image_index, point_coords)
create_new_point_set(s, image_index, point_coords) ==
    LET new_set_id == s.next_point_set_id
        allocated == [s EXCEPT !.next_point_set_id = AllocatedNext(@),
                               !.issued_ids = Append(@, Issued(s, new_set_id))]
        made == create_marker_item(allocated, point_coords, new_set_id)
    IN  IF ~made.ok THEN [allocated EXCEPT !.raised = made.exc]
        ELSE LET stored == [allocated EXCEPT
                     !.point_data = Put(@, new_set_id,
                         (image_index :> [coords |-> point_coords, marker |-> made.val])),
                     !.active_point_set_index = new_set_id,
                     !.scene_markers = @ \cup {<<new_set_id, image_index>>}]
                 styled == style_marker(made.val, new_set_id)
             IN  IF ~styled.ok THEN [stored EXCEPT !.raised = styled.exc]
                 ELSE Report(stored, "Created Point Set")

\* (faulty variant) the check for an observation of the image is left out
NeverObserved(observations, image_index) == FALSE

\* image_index in self.point_data[set_index]
AlreadyObserved(observations, image_index) == image_index \in DOMAIN observations

\* add_point_to_set(set_index, image_index, point_coords)
add_point_to_set(s, set_index, image_index, point_coords) ==
    IF set_index \notin Keys(s.point_data)
    THEN Report(s, "Error: Trying to add point to non-existent set")
    ELSE IF AlreadyObserved(Get(s.point_data, set_index), image_index)
    THEN Report(s, "Error: Image already has a point in set")
    ELSE LET made == create_marker_item(s, point_coords, set_index)
         IN  IF ~made.ok THEN [s EXCEPT !.raised = made.exc]
             ELSE LET stored == [s EXCEPT
                          !.point_data = Put(@, set_index,
                              (image_index :> [coords |-> point_coords,
                                               marker |-> made.val])
                                  @@ Get(s.point_data, set_index)),
                          !.scene_markers = @ \cup {<<set_index, image_index>>}]
                      styled == style_marker(made.val, set_index)
                  IN  IF ~styled.ok THEN [stored EXCEPT !.raised = styled.exc]
                      ELSE Report(stored, "Added point to Set")

\* handle_scene_click(scene_pos): the slot of ZoomableView.scene_mouse_press
handle_scene_click(s, scene_pos) ==
    IF s.tool_mode # "add_move" THEN s
    ELSE IF s.current_image_index < 0 \/ ~s.pixmap_item
    THEN Report(s, "Load an image first!")
    ELSE IF ~BoundingRectContains(
                PixmapSize(s.image_paths[s.current_image_index + 1]), scene_pos)
    THEN Report(s, "Placement outside image bounds.")
    ELSE LET image_index == s.current_image_index
             active_set_points ==
                 IF s.active_point_set_index \in Keys(s.point_data)
                 THEN Get(s.point_data, s.active_point_set_index)
                 ELSE <<>>
             placed ==
                 IF s.active_point_set_index = -1
                 THEN create_new_point_set(s, image_index, scene_pos)
                 ELSE IF image_index \in DOMAIN active_set_points
                 THEN create_new_point_set(s, image_index, scene_pos)
                 ELSE add_point_to_set(s, s.active_point_set_index, image_index,
                                       scene_pos)
         IN  IF placed.raised # "none" THEN placed
             ELSE update_image_list(update_point_set_list(placed))

\* the loop of delete_point_observation over point_data[set_index]: the image
\* index under which the marker of (set_index, at) is stored, or -1
FindMarker(pd, set_index, at) ==
    IF set_index \in Keys(pd) /\ at \in DOMAIN Get(pd, set_index) THEN at ELSE -1

\* (faulty variant) a set left without observations is kept
KeptWhenEmpty(pd, set_index, target_img_idx) ==
    LET obs == Get(pd, set_index)
    IN  Put(pd, set_index, [i \in DOMAIN obs \ {target_img_idx} |-> obs[i]])

\* the store after del point_data[set_index][target_img_idx] and the removal
\* of a set left empty
DeletedObservation(pd, set_index, target_img_idx) ==
    LET obs == Get(pd, set_index)
        rest == [i \in DOMAIN obs \ {target_img_idx} |-> obs[i]]
    IN  IF DOMAIN rest = {} THEN Del(pd, set_index) ELSE Put(pd, set_index, rest)

\* delete_point_observation(marker), the marker being the one stored for
\* (set_index, at); reply is the answer to the confirmation dialog
delete_point_observation(s, set_index, at, reply) ==
    LET target_img_idx == FindMarker(s.point_data, set_index, at)
    IN  IF target_img_idx = -1
        THEN Report(s, "Error: Could not find marker in data structure for deletion.")
        ELSE IF reply # "Yes" THEN s
        ELSE LET after == DeletedObservation(s.point_data, set_index, target_img_idx)
                 emptied == set_index \notin Keys(after)
                 deleted == [s EXCEPT
                     !.point_data = after,
                     !.scene_markers = @ \ {<<set_index, target_img_idx>>},
                     !.active_point_set_index =
                         IF emptied /\ @ = set_index THEN -1 ELSE @,
                     !.deleted_ids = IF emptied THEN @ \cup {set_index} ELSE @,
                     !.outcome = IF emptied THEN "Deleted empty Point Set"
                                 ELSE "Deleted point"]
                 listed == update_image_list(update_point_set_list(deleted))
             IN  IF listed.current_image_index = target_img_idx
                 THEN redraw_markers_and_errors_for_current_image(listed)
                 ELSE listed

\* handle_marker_action(marker_item, scene_pos): the slot of
\* ZoomableView.marker_action_click, for the marker of (set_index, at)
handle_marker_action(s, set_index, at, reply) ==
    IF s.tool_mode = "delete"
    THEN delete_point_observation(s, set_index, at, reply)
    ELSE s

\* on_point_set_selection_changed for the item of set new_active_index
on_point_set_selection_changed(s, new_active_index) ==
    IF new_active_index # s.active_point_set_index
    THEN LET activated == Report([s EXCEPT !.active_point_set_index = new_active_index],
                                 "Active Point Set")
             drawn == redraw_markers_and_errors_for_current_image(activated)
         IN  IF drawn.raised # "none" THEN drawn ELSE update_image_list(drawn)
    ELSE s

\* ------------------------------------------------------- mouse on the view
\* finalize_marker_move(marker_item, final_pos): the slot of
\* ZoomableView.marker_move_finished, for the marker of (set_index, at)
finalize_marker_move(s, set_index, at, final_pos) ==
    LET target_img_idx == FindMarker(s.point_data, set_index, at)
    IN  IF target_img_idx # -1
        THEN Report([s EXCEPT !.point_data = Put(@, set_index,
                        [Get(s.point_data, set_index) EXCEPT
                            ![target_img_idx].coords = final_pos])],
                    "Moved point in Set")
        ELSE Report(s, "Error: Could not find moved marker in data structure.")

\* marker.setPos(pos) for the marker of (set_index, at)
SetPos(pd, set_index, at, pos) ==
    IF FindMarker(pd, set_index, at) = -1 THEN pd
    ELSE Put(pd, set_index, [Get(pd, set_index) EXCEPT ![at].marker.pos = pos])

\* the marker item of the scene stored for (set_index, at)
MarkerItem(pd, set_index, at) ==
    [set_index |-> set_index, at |-> at, pos |-> Get(pd, set_index)[at].marker.pos]

\* mousePressEvent: item is the marker under the cursor, or None; reply is
\* the answer to the confirmation the delete tool asks for
mousePressEvent(s, button, item, reply) ==
    IF button = "middle"
    THEN [s EXCEPT !.view.is_middle_button_panning = TRUE]
    ELSE IF button # "left" THEN s
    ELSE IF item # None
    THEN IF s.tool_mode = "add_move"
         THEN [s EXCEPT !.view = [PrecisionZoom(@) EXCEPT !.dragged_marker = item]]
         ELSE IF s.tool_mode = "delete"
         THEN Emit(handle_marker_action(s, item.set_index, item.at, reply),
                   "marker_action_click")
         ELSE s
    ELSE IF s.tool_mode = "add_move"
         THEN [s EXCEPT !.view =
                  [PrecisionZoom(@) EXCEPT !.is_placing_new_marker = TRUE]]
         ELSE s

\* mouseMoveEvent: the pointer moves to scene_pos
mouseMoveEvent(s, scene_pos) ==
    IF s.view.is_middle_button_panning THEN s
    ELSE IF s.view.dragged_marker # None /\ s.tool_mode = "add_move"
    THEN [s EXCEPT
             !.view.dragged_marker.pos = scene_pos,
             !.point_data = SetPos(@, s.view.dragged_marker.set_index,
                                   s.view.dragged_marker.at, scene_pos)]
    ELSE s

\* mouseReleaseEvent: button is released over scene_pos
mouseReleaseEvent(s, button, scene_pos) ==
    IF button = "middle" /\ s.view.is_middle_button_panning
    THEN [s EXCEPT !.view.is_middle_button_panning = FALSE]
    ELSE IF button = "left" /\ s.view.dragged_marker # None
    THEN LET final_pos == s.view.dragged_marker.pos
             finished ==
                 IF s.tool_mode = "add_move"
                 THEN Emit(finalize_marker_move(s, s.view.dragged_marker.set_index,
                                                s.view.dragged_marker.at, final_pos),
                           "marker_move_finished")
                 ELSE s
         IN  [finished EXCEPT
                 !.view = RestoredTransform([@ EXCEPT !.dragged_marker = None])]
    ELSE IF button = "left" /\ s.view.is_placing_new_marker
    THEN LET placed ==
                 IF s.tool_mode = "add_move"
                 THEN Emit(handle_scene_click(s, scene_pos), "scene_mouse_press")
                 ELSE s
         IN  [placed EXCEPT
                 !.view = RestoredTransform([@ EXCEPT !.is_placing_new_marker = FALSE])]
    ELSE s

\* ------------------------------------------------------- SolverInputBuilder
RECURSIVE BitLength(_)
BitLength(n) == IF n = 0 THEN 0 ELSE 1 + BitLength(n \div 2)

\* np.float32(v) for v >= 0: the nearest value with 24 significant bits, ties
\* to the even one
Float32(v) ==
    LET bits == BitLength(v)
    IN  IF bits <= 24 THEN v
        ELSE LET q == 2^(bits - 24)
                 lo == (v \div q) * q
                 rem == v - lo
             IN  IF 2 * rem < q THEN lo
                 ELSE IF 2 * rem > q THEN lo + q
                 ELSE IF (v \div q) % 2 = 0 THEN lo ELSE lo + q

\* np.uint32(k): a keypoint index is a list position, 0 <= k < 2^31, which
\* the conversion keeps
UInt32(k) == k

\* (faulty variant) the keys in dict order, the sort left out
UnsortedSetIds(pd) == KeySeq(pd)

\* sorted_set_ids = sorted(self.point_data.keys())
sorted_set_ids(pd) == sorted(Keys(pd))

\* (faulty variant) the keypoint index is not advanced
StuckKeypointIdx(k) == k

\* current_keypoint_idx += 1
NextKeypointIdx(k) == k + 1

\* the keypoint record of an observation: (x, y, scale 1.0, orientation 0.0)
KeypointRecord(coords) == <<coords[1], coords[2], 1, 0>>

\* the loop over sorted_set_ids for one image: appends a keypoint for every
\* set observed in the image and records set id -> keypoint index
RECURSIVE KeypointScan(_, _, _, _, _, _)
KeypointScan(pd, img_idx, ids, keypoints, map, current_keypoint_idx) ==
    IF ids = <<>> THEN [keypoints |-> keypoints, map |-> map]
    ELSE LET set_id == Head(ids)
         IN  IF img_idx \in DOMAIN Get(pd, set_id)
             THEN KeypointScan(pd, img_idx, Tail(ids),
                      Append(keypoints, KeypointRecord(Get(pd, set_id)[img_idx].coords)),
                      map @@ (set_id :> current_keypoint_idx),
                      NextKeypointIdx(current_keypoint_idx))
             ELSE KeypointScan(pd, img_idx, Tail(ids), keypoints, map,
                               current_keypoint_idx)

\* keypoints_per_image and keypoint_maps for the images 0..n-1
KeypointOrder(pd, n) ==
    [img_idx \in 0..(n - 1) |->
        KeypointScan(pd, img_idx, sorted_set_ids(pd), <<>>, <<>>, 0)]

\* common_sets of two images, from the cached maps
CommonSets(maps, idx1, idx2) == DOMAIN maps[idx1] \cap DOMAIN maps[idx2]

\* (faulty variant) both keypoint indices looked up in the first image's map
RECURSIVE MatchesListSameImage(_, _, _, _)
MatchesListSameImage(maps, idx1, idx2, ids) ==
    IF ids = <<>> THEN <<>>
    ELSE <<(<<UInt32(maps[idx1][Head(ids)]), UInt32(maps[idx1][Head(ids)])>>)>>
            \o MatchesListSameImage(maps, idx1, idx2, Tail(ids))

\* matches_list of an image pair; the iteration order of the Python set is
\* taken to be ascending
RECURSIVE MatchesList(_, _, _, _)
MatchesList(maps, idx1, idx2, ids) ==
    IF ids = <<>> THEN <<>>
    ELSE <<(<<UInt32(maps[idx1][Head(ids)]), UInt32(maps[idx2][Head(ids)])>>)>>
            \o MatchesList(maps, idx1, idx2, Tail(ids))

\* (faulty variant) the inner loop starts at i instead of i + 1
ImagePairsWithSelf(n) == {pr \in (0..(n - 1)) \X (0..(n - 1)) : pr[1] <= pr[2]}

\* the image pairs the match loop visits
ImagePairs(n) == {pr \in (0..(n - 1)) \X (0..(n - 1)) : pr[1] < pr[2]}

\* the id the fresh database assigns to the image written for img_idx
ImageId(img_idx) == img_idx + 1

\* the matches written: one entry per image pair with a common set
MatchesWritten(maps, n) ==
    LET matched == {pr \in ImagePairs(n) : CommonSets(maps, pr[1], pr[2]) # {}}
    IN  [ids \in {<<ImageId(pr[1]), ImageId(pr[2])>> : pr \in matched} |->
            MatchesList(maps, ids[1] - 1, ids[2] - 1,
                        sorted(CommonSets(maps, ids[1] - 1, ids[2] - 1)))]

\* image_dimensions.get(img_idx, (0, 0))
DimsOrZero(dims, img_idx) == IF img_idx \in DOMAIN dims THEN dims[img_idx] ELSE <<0, 0>>

\* the SIMPLE_PINHOLE camera written for an image: focal length
\* 1.2 * max(width, height) in tenths of a pixel, principal point in halves
CameraFor(size) ==
    [model |-> "SIMPLE_PINHOLE", width |-> size[1], height |-> size[2],
     f10 |-> 12 * (IF size[1] >= size[2] THEN size[1] ELSE size[2]),
     cx2 |-> size[1], cy2 |-> size[2]]

\* the keypoint array written for an image: float32
KeypointsArray(keypoints) ==
    [k \in DOMAIN keypoints |->
        <<Float32(keypoints[k][1]), Float32(keypoints[k][2]),
          Float32(keypoints[k][3]), Float32(keypoints[k][4])>>]

\* _populate_colmap_database as a function of the store, the image list and
\* the dimensions; fault is the failure of the file system or of the database
\* library ("none" | "remove" | "open"), old the values before the call
populate_colmap_database(pd, paths, dims, old, fault) ==
    LET n == Len(paths)
        order == KeypointOrder(pd, n)
        kpi == [i \in 0..(n - 1) |-> order[i].keypoints]
        maps == [i \in 0..(n - 1) |-> order[i].map]
        bad_dims == {i \in 0..(n - 1) :
                        DimsOrZero(dims, i)[1] <= 0 \/ DimsOrZero(dims, i)[2] <= 0}
        with_points == {i \in 0..(n - 1) : Len(kpi[i]) > 0}
    IN  IF fault = "remove"
        THEN [result |-> FALSE, keypoint_maps |-> old.keypoint_maps,
              keypoints_per_image |-> old.keypoints_per_image,
              colmap_db |-> old.colmap_db,
              outcome |-> "Could not remove existing database file"]
        ELSE IF fault = "open"
        THEN [result |-> FALSE, keypoint_maps |-> old.keypoint_maps,
              keypoints_per_image |-> old.keypoints_per_image,
              colmap_db |-> EmptyDb,
              outcome |-> "PyCOLMAP error creating/populating database"]
        ELSE IF bad_dims # {}
        THEN [result |-> FALSE, keypoint_maps |-> maps,
              keypoints_per_image |-> kpi,
              colmap_db |-> EmptyDb,
              outcome |-> "Missing or invalid dimensions"]
        ELSE [result |-> TRUE, keypoint_maps |-> maps,
              keypoints_per_image |-> kpi,
              colmap_db |->
                [cameras |-> [c \in 1..n |-> CameraFor(dims[c - 1])],
                 images |-> [c \in 1..n |-> [name |-> paths[c].base, camera_id |-> c]],
                 keypoints |-> [id \in {ImageId(i) : i \in with_points} |->
                                   KeypointsArray(kpi[id - 1])],
                 matches |-> MatchesWritten(maps, n)],
              outcome |-> "database populated"]

\* --------------------------------------------------------- result mapping
\* keypoint_idx_to_set_id_map[img_idx] = {v: k for k, v in set_map.items()}:
\* of two sets with the same keypoint index the one inserted last is kept,
\* and the maps are filled in ascending set id
InverseKeypointMap(set_map) ==
    [kp \in {set_map[t] : t \in DOMAIN set_map} |->
        CHOOSE t \in DOMAIN set_map :
            /\ set_map[t] = kp
            /\ \A u \in DOMAIN set_map : set_map[u] = kp => u <= t]

\* ------------------------------------------------------------- the solver
\* pycolmap.incremental_mapping is opaque: its answer is drawn from a few
\* reconstructions of the database it was given.
Identity3 == <<(<<1, 0, 0>>), (<<0, 1, 0>>), (<<0, 0, 1>>)>>
Transpose(M) == [i \in 1..3 |-> [j \in 1..3 |-> M[j][i]]]
MatVec(M, v) == [i \in 1..3 |-> M[i][1] * v[1] + M[i][2] * v[2] + M[i][3] * v[3]]
Negated(v) == [i \in 1..3 |-> -v[i]]

\* the keypoints the database holds for an image id
DbKeypoints(db, image_id) ==
    IF image_id \in DOMAIN db.keypoints THEN db.keypoints[image_id] ELSE <<>>

\* the matches the database holds for a pair of image ids
DbMatches(db, id1, id2) ==
    IF <<id1, id2>> \in DOMAIN db.matches THEN db.matches[<<id1, id2>>] ELSE <<>>

\* the two lowest image ids of reg, a set of at least two
Anchor(reg) ==
    LET a == CHOOSE x \in reg : \A y \in reg : x <= y
        b == CHOOSE x \in reg \ {a} : \A y \in reg \ {a} : x <= y
    IN  <<a, b>>

\* the 3-D points of a reconstruction of the images reg: one per match of its
\* two lowest images, point m at depth 3 - m before the first camera
SolvedPoints(db, reg) ==
    IF Cardinality(reg) < 2 THEN <<>>
    ELSE LET pair == Anchor(reg)
             found == DbMatches(db, pair[1], pair[2])
         IN  [m \in DOMAIN found |->
                 [id |-> m, xyz |-> <<m, 1, 3 - m>>,
                  track |-> <<[image_id |-> pair[1], point2D_idx |-> found[m][1]],
                              [image_id |-> pair[2], point2D_idx |-> found[m][2]]>>]]

\* point3D_id of the keypoint at index kp_idx of image image_id, or -1
PointOfKeypoint(points, image_id, kp_idx) ==
    LET hits == {m \in DOMAIN points :
                    \E e \in DOMAIN points[m].track :
                        /\ points[m].track[e].image_id = image_id
                        /\ points[m].track[e].point2D_idx = kp_idx}
    IN  IF hits = {} THEN -1 ELSE points[CHOOSE m \in hits : TRUE].id

\* What the solver may make of its input. track: the observation list of a
\* 3-D point is as solved, reversed, led by an element of an image or of a
\* keypoint the database does not hold, crossed (its second element names
\* the next keypoint of that image, or its first element does), made of
\* unknown elements only, or empty. depth: the points lie before the cameras, behind them or in their
\* plane. camera: the camera of the lowest image is SIMPLE_PINHOLE, of
\* another model, or SIMPLE_PINHOLE with a parameter missing.
TrackTwists ==
    {"as solved", "reversed", "unknown image first", "unknown keypoint first",
     "crossed", "crossed first", "first crossed", "unresolvable", "empty"}
DepthTwists == {"front", "behind", "in plane"}
CameraTwists == {"SIMPLE_PINHOLE", "PINHOLE", "malformed"}
Twists ==
    [track : TrackTwists, depth : DepthTwists, camera : CameraTwists]
Plain == [track |-> "as solved", depth |-> "front", camera |-> "SIMPLE_PINHOLE"]

\* an element of image id 0 (no image of the database) and one of a keypoint
\* index no image has
UnknownImageElement == [image_id |-> 0, point2D_idx |-> 0]
UnknownKeypointElement(el) == [image_id |-> el.image_id, point2D_idx |-> 9]

\* the element of the keypoint after el's in its image, cyclically
NextKeypointElement(db, el) ==
    [image_id |-> el.image_id,
     point2D_idx |-> (el.point2D_idx + 1) % Len(DbKeypoints(db, el.image_id))]

\* the observation list of a point under a twist
TwistedTrack(db, track, twist) ==
    CASE twist = "as solved" -> track
      [] twist = "reversed" -> <<track[2], track[1]>>
      [] twist = "unknown image first" -> <<UnknownImageElement>> \o track
      [] twist = "unknown keypoint first" ->
            <<UnknownKeypointElement(track[1])>> \o track
      [] twist = "crossed" -> <<track[1], NextKeypointElement(db, track[2])>>
      [] twist = "crossed first" -> <<NextKeypointElement(db, track[2]), track[1]>>
      [] twist = "first crossed" -> <<NextKeypointElement(db, track[1]), track[2]>>
      [] twist = "unresolvable" -> <<UnknownImageElement>>
      [] twist = "empty" -> <<>>

\* the position of a point under a twist of the depth
TwistedXyz(xyz, twist) ==
    CASE twist = "front" -> xyz
      [] twist = "behind" -> <<xyz[1], xyz[2], -xyz[3]>>
      [] twist = "in plane" -> <<xyz[1], xyz[2], 0>>

\* the camera of an image under a twist: only the lowest image's changes
TwistedCamera(camera, lowest, twist) ==
    IF ~lowest \/ twist = "SIMPLE_PINHOLE" THEN camera
    ELSE IF twist = "PINHOLE"
    THEN [model |-> "PINHOLE", params |-> <<10, 10, 4, 3>>]
    ELSE [model |-> "SIMPLE_PINHOLE", params |-> <<10, 4>>]

\* the points of a reconstruction under a twist
TwistedPoints(db, reg, twist) ==
    LET points == SolvedPoints(db, reg)
    IN  [m \in DOMAIN points |->
            [id |-> points[m].id,
             xyz |-> TwistedXyz(points[m].xyz, twist.depth),
             track |-> TwistedTrack(db, points[m].track, twist.track)]]

\* a reconstruction that registered the images reg of the database, under a
\* twist
TwistedReconstruction(db, reg, twist) ==
    LET points == TwistedPoints(db, reg, twist)
        lowest == CHOOSE x \in reg : \A y \in reg : x <= y
    IN  [images |-> [id \in reg |->
            [image_id |-> id, camera_id |-> db.images[id].camera_id,
             cam_from_world |-> [R |-> Identity3, t |-> <<id - 1, 0, 0>>],
             points2D |-> [k \in DOMAIN DbKeypoints(db, id) |->
                 [xy |-> <<DbKeypoints(db, id)[k][1], DbKeypoints(db, id)[k][2]>>,
                  point3D_id |-> PointOfKeypoint(points, id, k - 1)]]]],
         cameras |-> [c \in {db.images[id].camera_id : id \in reg} |->
            TwistedCamera([model |-> "SIMPLE_PINHOLE", params |-> <<10, 4, 3>>],
                          c = db.images[lowest].camera_id, twist.camera)],
         points3D |-> points]

\* a reconstruction that registered the images reg of the database
Reconstruction(db, reg) == TwistedReconstruction(db, reg, Plain)

num_reg_images(rec) == Cardinality(DOMAIN rec.images)

SolverVariants == {"raise", "no dict", "no model", "one image", "all images",
                   "two models"}

\* two models of two images each, the one of the images 1 and 2 (which has
\* the points of their matches) listed first or last
TieVariants == {"tie, first of images 1 2", "tie, last of images 1 2"}

\* the answer of the solver: an exception, something that is no dict, or a
\* dict as the list of its (rec_id, rec) items, the reconstructions under a
\* twist
IncrementalMapping(db, variant, twist) ==
    LET all == DOMAIN db.images
        Rec(reg) == TwistedReconstruction(db, reg, twist)
    IN  CASE variant = "raise" -> [kind |-> "raise"]
          [] variant = "no dict" -> [kind |-> "none"]
          [] variant = "no model" -> [kind |-> "dict", models |-> <<>>]
          [] variant = "one image" ->
                [kind |-> "dict", models |-> <<[rec_id |-> 0, rec |-> Rec({1})]>>]
          [] variant = "all images" ->
                [kind |-> "dict", models |-> <<[rec_id |-> 0, rec |-> Rec(all)]>>]
          [] variant = "two models" ->
                [kind |-> "dict",
                 models |-> <<[rec_id |-> 0, rec |-> Rec({1, 2})],
                              [rec_id |-> 1, rec |-> Rec(all)]>>]
          [] variant = "tie, first of images 1 2" ->
                [kind |-> "dict",
                 models |-> <<[rec_id |-> 0, rec |-> Rec({1, 2})],
                              [rec_id |-> 1, rec |-> Rec({1, 3})]>>]
          [] variant = "tie, last of images 1 2" ->
                [kind |-> "dict",
                 models |-> <<[rec_id |-> 0, rec |-> Rec({1, 3})],
                              [rec_id |-> 1, rec |-> Rec({1, 2})]>>]
\* ------------------------------------------------------ float64 arithmetic
\* A natural number of any size is the sequence of its digits to the base
\* 2^13, lowest first and without leading zeros; a float64 value is a sign,
\* such a number and a power of two: (-1)^neg * mag * 2^exp, with mag odd,
\* or empty for zero.
DigitBits == 13
Base == 8192

RECURSIVE Digits(_)
Digits(n) == IF n = 0 THEN <<>> ELSE <<n % Base>> \o Digits(n \div Base)

RECURSIVE Trimmed(_)
Trimmed(a) ==
    IF a = <<>> THEN <<>>
    ELSE IF a[Len(a)] = 0 THEN Trimmed(SubSeq(a, 1, Len(a) - 1)) ELSE a

Zeros(k) == [i \in 1..k |-> 0]
LowDigit(a) == IF a = <<>> THEN 0 ELSE a[1]
HighDigits(a) == IF a = <<>> THEN <<>> ELSE Tail(a)

RECURSIVE Pow2(_)
Pow2(k) == IF k = 0 THEN 1 ELSE 2 * Pow2(k - 1)

\* a + b + c for a carry c
RECURSIVE AddDigits(_, _, _)
AddDigits(a, b, c) ==
    IF a = <<>> /\ b = <<>> THEN Digits(c)
    ELSE LET t == LowDigit(a) + LowDigit(b) + c
         IN  <<t % Base>> \o AddDigits(HighDigits(a), HighDigits(b), t \div Base)

\* a - b - c for a borrow c, a >= b + c
RECURSIVE SubDigits(_, _, _)
SubDigits(a, b, c) ==
    IF a = <<>> THEN <<>>
    ELSE LET t == a[1] - LowDigit(b) - c
         IN  IF t < 0 THEN <<t + Base>> \o SubDigits(Tail(a), HighDigits(b), 1)
             ELSE <<t>> \o SubDigits(Tail(a), HighDigits(b), 0)

\* a < b for numbers without leading zeros
LessDigits(a, b) ==
    \/ Len(a) < Len(b)
    \/ /\ Len(a) = Len(b)
       /\ \E i \in DOMAIN a :
             /\ a[i] < b[i]
             /\ \A j \in DOMAIN a : j > i => a[j] = b[j]

\* a * n + c for a digit n and a carry c
RECURSIVE MulDigit(_, _, _)
MulDigit(a, n, c) ==
    IF a = <<>> THEN Digits(c)
    ELSE LET t == a[1] * n + c
         IN  <<t % Base>> \o MulDigit(Tail(a), n, t \div Base)

\* a * b
RECURSIVE MulDigits(_, _)
MulDigits(a, b) ==
    IF b = <<>> THEN <<>>
    ELSE AddDigits(MulDigit(a, b[1], 0), <<0>> \o MulDigits(a, Tail(b)), 0)

\* quotient and remainder of a by a whole number n, 0 < n < 2^17
RECURSIVE DivDigits(_, _)
DivDigits(a, n) ==
    IF a = <<>> THEN [q |-> <<>>, r |-> 0]
    ELSE LET high == DivDigits(Tail(a), n)
             t == Base * high.r + a[1]
         IN  [q |-> <<t \div n>> \o high.q, r |-> t % n]

\* a * 2^s and the whole part of a / 2^s
ShiftLeft(a, s) ==
    Trimmed(Zeros(s \div DigitBits) \o MulDigit(a, Pow2(s % DigitBits), 0))

ShiftRight(a, s) ==
    IF s \div DigitBits >= Len(a) THEN <<>>
    ELSE Trimmed(DivDigits(SubSeq(a, s \div DigitBits + 1, Len(a)),
                           Pow2(s % DigitBits)).q)

BitsOf(a) ==
    IF a = <<>> THEN 0 ELSE DigitBits * (Len(a) - 1) + BitLength(a[Len(a)])

\* the number of zero bits at the low end of a number that is not zero
RECURSIVE LowZeros(_)
LowZeros(a) ==
    IF a[1] = 0 THEN DigitBits + LowZeros(Tail(a))
    ELSE IF a[1] % 2 = 0 THEN 1 + LowZeros(<<a[1] \div 2>>)
    ELSE 0

\* the value (-1)^neg * mag * 2^exp with mag made odd
Dyadic(neg, mag, exp) ==
    IF Trimmed(mag) = <<>> THEN [neg |-> FALSE, mag |-> <<>>, exp |-> 0]
    ELSE LET low == LowZeros(Trimmed(mag))
         IN  [neg |-> neg, mag |-> ShiftRight(Trimmed(mag), low), exp |-> exp + low]

\* a whole number as a value
Whole(n) == Dyadic(n < 0, Digits(IF n < 0 THEN -n ELSE n), 0)

\* the float64 nearest to a value, ties to the even one (the exponent range
\* of float64 is not reached by the values of the model)
MantissaBits == 53
Float64(d) ==
    IF BitsOf(d.mag) <= MantissaBits THEN d
    ELSE LET drop == BitsOf(d.mag) - MantissaBits
             kept == ShiftRight(d.mag, drop)
             rest == Trimmed(SubDigits(d.mag, ShiftLeft(kept, drop), 0))
             twice == AddDigits(rest, rest, 0)
             unit == ShiftLeft(<<1>>, drop)
             up == LessDigits(unit, twice) \/ (twice = unit /\ kept[1] % 2 = 1)
         IN  Dyadic(d.neg, IF up THEN AddDigits(kept, <<1>>, 0) ELSE kept, d.exp + drop)

Negative(d) == IF d.mag = <<>> THEN d ELSE [d EXCEPT !.neg = ~d.neg]

\* the exact sum and product of two values
ExactSum(a, b) ==
    LET e == IF a.exp < b.exp THEN a.exp ELSE b.exp
        A == ShiftLeft(a.mag, a.exp - e)
        B == ShiftLeft(b.mag, b.exp - e)
    IN  IF a.mag = <<>> THEN b
        ELSE IF b.mag = <<>> THEN a
        ELSE IF a.neg = b.neg THEN Dyadic(a.neg, AddDigits(A, B, 0), e)
        ELSE IF LessDigits(A, B) THEN Dyadic(b.neg, SubDigits(B, A, 0), e)
        ELSE Dyadic(a.neg, SubDigits(A, B, 0), e)

ExactProduct(a, b) == Dyadic(a.neg # b.neg, MulDigits(a.mag, b.mag), a.exp + b.exp)

\* float64 a + b, a - b, a * b
FAdd(a, b) == Float64(ExactSum(a, b))
FSub(a, b) == Float64(ExactSum(a, Negative(b)))
FMul(a, b) == Float64(ExactProduct(a, b))

\* float64 x / z for whole numbers x and z, 0 < |z| < 2^17: twice the whole
\* part of |x| * 2^QuotientShift / |z|, plus one when a remainder is left
QuotientShift == 91
FDiv(x, z) ==
    LET divisor == IF z < 0 THEN -z ELSE z
        divided == DivDigits(ShiftLeft(Digits(IF x < 0 THEN -x ELSE x), QuotientShift), divisor)
    IN  Float64(Dyadic((x < 0) # (z < 0),
            AddDigits(divided.q, divided.q, IF divided.r = 0 THEN 0 ELSE 1),
            -QuotientShift - 1))

\* ---------------------------------------------------------- run_calibration
\* the loop "Find the largest reconstruction model": the first model with
\* the greatest number of registered images
RECURSIVE LargestModel(_, _)
LargestModel(models, best) ==
    IF models = <<>> THEN best
    ELSE LET num_reg == num_reg_images(Head(models).rec)
         IN  IF num_reg > best.max_reg_images
             THEN LargestModel(Tail(models),
                      [largest_rec_id |-> Head(models).rec_id,
                       max_reg_images |-> num_reg, largest_rec |-> Head(models).rec])
             ELSE LargestModel(Tail(models), best)

\* name_to_id_map = {img.name: img.image_id for img in all_db_images}
NameToIdMap(db) ==
    [name \in {db.images[c].name : c \in DOMAIN db.images} |->
        CHOOSE c \in DOMAIN db.images :
            /\ db.images[c].name = name
            /\ \A e \in DOMAIN db.images : db.images[e].name = name => e <= c]

\* original_idx_to_colmap_id, by the basename of the image path
OriginalIdxToColmapId(paths, db) ==
    [idx \in {i \in 0..(Len(paths) - 1) : paths[i + 1].base \in DOMAIN NameToIdMap(db)}
        |-> NameToIdMap(db)[paths[idx + 1].base]]

\* colmap_id_to_original_idx: the last index written for an id
ColmapIdToOriginalIdx(o2c) ==
    [id \in {o2c[i] : i \in DOMAIN o2c} |->
        CHOOSE i \in DOMAIN o2c : o2c[i] = id /\ \A j \in DOMAIN o2c : o2c[j] = id => j <= i]

\* the image indices whose COLMAP image is registered in rec
RegisteredIdx(o2c, rec) == {i \in DOMAIN o2c : o2c[i] \in DOMAIN rec.images}

CameraOf(rec, image_id) == rec.cameras[rec.images[image_id].camera_id]

\* calibration_results["intrinsics"]
Intrinsics(o2c, rec) ==
    [i \in {j \in RegisteredIdx(o2c, rec) :
                /\ CameraOf(rec, o2c[j]).model = "SIMPLE_PINHOLE"
                /\ Len(CameraOf(rec, o2c[j]).params) = 3} |->
        LET p == CameraOf(rec, o2c[i]).params
        IN  [K |-> <<(<<p[1], 0, p[2]>>), (<<0, p[1], p[3]>>), (<<0, 0, 1>>)>>]]

\* calibration_results["poses"]: camera-to-world, R transposed and -R^T t; a
\* SIMPLE_PINHOLE camera without 3 parameters skips the image
Poses(o2c, rec) ==
    [i \in {j \in RegisteredIdx(o2c, rec) :
                ~(/\ CameraOf(rec, o2c[j]).model = "SIMPLE_PINHOLE"
                  /\ Len(CameraOf(rec, o2c[j]).params) # 3)} |->
        LET pose_w2c == rec.images[o2c[i]].cam_from_world
            R_c2w == Transpose(pose_w2c.R)
        IN  [R |-> R_c2w, t |-> Negated(MatVec(R_c2w, pose_w2c.t))]]

\* keypoint_idx_to_set_id_map
KeypointIdxToSetIdMap(maps) ==
    [img_idx \in DOMAIN maps |-> InverseKeypointMap(maps[img_idx])]

\* a set id in a list that also holds None
SetId(id) == [tag |-> "int", val |-> id]

\* (faulty variant) the loop without its break: the set id of the last
\* element that resolves, or None
RECURSIVE LastFoundSetId(_, _, _)
LastFoundSetId(inverse, c2o, elements) ==
    IF elements = <<>> THEN None
    ELSE LET el == elements[Len(elements)]
             resolves ==
                 /\ el.image_id \in DOMAIN c2o
                 /\ c2o[el.image_id] \in DOMAIN inverse
                 /\ el.point2D_idx \in DOMAIN inverse[c2o[el.image_id]]
         IN  IF resolves THEN SetId(inverse[c2o[el.image_id]][el.point2D_idx])
             ELSE LastFoundSetId(inverse, c2o, SubSeq(elements, 1, Len(elements) - 1))

\* the loop over point3d.track.elements: the set id of the first element
\* that resolves, or None
RECURSIVE FoundSetId(_, _, _)
FoundSetId(inverse, c2o, elements) ==
    IF elements = <<>> THEN None
    ELSE LET el == Head(elements)
             resolves ==
                 /\ el.image_id \in DOMAIN c2o
                 /\ c2o[el.image_id] \in DOMAIN inverse
                 /\ el.point2D_idx \in DOMAIN inverse[c2o[el.image_id]]
         IN  IF resolves THEN SetId(inverse[c2o[el.image_id]][el.point2D_idx])
             ELSE FoundSetId(inverse, c2o, Tail(elements))

\* calibration_results["point_ids"], index-wise with points_3d
PointIds(maps, c2o, rec) ==
    [m \in DOMAIN rec.points3D |->
        IF DOMAIN maps = {} THEN None
        ELSE FoundSetId(KeypointIdxToSetIdMap(maps), c2o, rec.points3D[m].track)]

\* pose_w2c * world_point
PointInCamera(pose_w2c, world_point) ==
    LET r == MatVec(pose_w2c.R, world_point)
    IN  <<r[1] + pose_w2c.t[1], r[2] + pose_w2c.t[2], r[3] + pose_w2c.t[3]>>

\* (faulty variant) a point at any depth is projected
AnyDepth(point_in_camera_coords) == TRUE

\* point_in_camera_coords[2] > 1e-6; the coordinates are whole numbers
InFrontOfCamera(point_in_camera_coords) == point_in_camera_coords[3] > 0

\* a pixel coordinate, kept in units of 1 / Unit pixel, as a float64 value
PixelValue(c) == Dyadic(c < 0, Digits(IF c < 0 THEN -c ELSE c), -BitLength(Unit) + 1)

\* (faulty variant) the projection without the principal point
ErrorFromFocalAxis(observed_xy, params, pc) ==
    LET dx == FSub(PixelValue(observed_xy[1]), FMul(Whole(params[1]), FDiv(pc[1], pc[3])))
        dy == FSub(PixelValue(observed_xy[2]), FMul(Whole(params[1]), FDiv(pc[2], pc[3])))
    IN  [dx |-> dx, dy |-> dy, magnitude |-> [norm_of |-> <<dx, dy>>]]

\* observed - projected for a point at depth Z > 0, in float64:
\* u = f * (X / Z) + cx and v = f * (Y / Z) + cy; the magnitude is the norm
\* of (dx, dy), zero exactly when both are
ProjectionError(observed_xy, params, pc) ==
    LET u == FAdd(FMul(Whole(params[1]), FDiv(pc[1], pc[3])), Whole(params[2]))
        v == FAdd(FMul(Whole(params[1]), FDiv(pc[2], pc[3])), Whole(params[3]))
        dx == FSub(PixelValue(observed_xy[1]), u)
        dy == FSub(PixelValue(observed_xy[2]), v)
    IN  [dx |-> dx, dy |-> dy, magnitude |-> [norm_of |-> <<dx, dy>>]]

\* the observations of image idx that get an error: the positions k of
\* image.points2D whose 3-D point is mapped to a set and lies before the
\* camera, the camera being SIMPLE_PINHOLE
ErrorPositions(o2c, rec, ids, idx) ==
    LET image == rec.images[o2c[idx]]
    IN  {k \in DOMAIN image.points2D :
            \E m \in DOMAIN rec.points3D :
                /\ rec.points3D[m].id = image.points2D[k].point3D_id
                /\ ids[m] # None
                /\ InFrontOfCamera(
                       PointInCamera(image.cam_from_world, rec.points3D[m].xyz))
                /\ CameraOf(rec, o2c[idx]).model = "SIMPLE_PINHOLE"
                /\ Len(CameraOf(rec, o2c[idx]).params) = 3}

\* the set id an observation's error is stored under
ErrorSetId(rec, ids, image, k) ==
    ids[CHOOSE m \in DOMAIN rec.points3D :
            rec.points3D[m].id = image.points2D[k].point3D_id].val

\* self.reprojection_errors after the loop "Calculate Reprojection Errors":
\* a later observation of a set in an image replaces an earlier one
ReprojectionErrors(o2c, rec, ids) ==
    LET reg == RegisteredIdx(o2c, rec)
        sets_in(idx) ==
            {ErrorSetId(rec, ids, rec.images[o2c[idx]], k) :
                k \in ErrorPositions(o2c, rec, ids, idx)}
    IN  [set_id \in UNION {sets_in(idx) : idx \in reg} |->
            [idx \in {i \in reg : set_id \in sets_in(i)} |->
                LET image == rec.images[o2c[idx]]
                    ks == {k \in ErrorPositions(o2c, rec, ids, idx) :
                              ErrorSetId(rec, ids, image, k) = set_id}
                    last == CHOOSE x \in ks : \A y \in ks : y <= x
                    m == CHOOSE n \in DOMAIN rec.points3D :
                             rec.points3D[n].id = image.points2D[last].point3D_id
                IN  ProjectionError(image.points2D[last].xy,
                        CameraOf(rec, o2c[idx]).params,
                        PointInCamera(image.cam_from_world, rec.points3D[m].xyz))]]

\* the results parsed from the reconstruction rec
ParsedResults(s, rec) ==
    LET o2c == OriginalIdxToColmapId(s.image_paths, s.colmap_db)
        c2o == ColmapIdToOriginalIdx(o2c)
        ids == PointIds(s.keypoint_maps, c2o, rec)
    IN  [calibration_results |->
            [intrinsics |-> Intrinsics(o2c, rec),
             poses |-> Poses(o2c, rec),
             points_3d |-> [m \in DOMAIN rec.points3D |-> rec.points3D[m].xyz],
             point_ids |-> ids,
             registered_indices |-> sorted(DOMAIN Poses(o2c, rec))],
         reprojection_errors |-> ReprojectionErrors(o2c, rec, ids)]

\* calibration_results as created before the parsing
EmptyResults ==
    [intrinsics |-> <<>>, poses |-> <<>>, points_3d |-> <<>>, point_ids |-> <<>>,
     registered_indices |-> <<>>]

\* _load_dimensions_for_image(index) for an index without cached dimensions
load_dimensions_for_image(s, index) ==
    IF 0 <= index /\ index < Len(s.image_paths) /\ s.image_paths[index + 1].readable
    THEN [s EXCEPT !.image_dimensions =
              (index :> PixmapSize(s.image_paths[index + 1])) @@ @]
    ELSE s

\* the loop "Verify all required image dimensions are loaded" from idx on:
\* the state, and whether every image has dimensions
RECURSIVE VerifyDimensions(_, _)
VerifyDimensions(s, idx) ==
    IF idx >= Len(s.image_paths) THEN [state |-> s, loaded |-> TRUE]
    ELSE IF idx \in DOMAIN s.image_dimensions THEN VerifyDimensions(s, idx + 1)
    ELSE LET tried == load_dimensions_for_image(s, idx)
         IN  IF idx \in DOMAIN tried.image_dimensions
             THEN VerifyDimensions(tried, idx + 1)
             ELSE [state |-> s, loaded |-> FALSE]

\* the numbers of the sanity checks of run_calibration
MIN_IMAGES == 2
MIN_POINT_SETS == 3

\* (faulty variant) no number of images is too small
EnoughImages(num_images) == FALSE

\* num_images < 2
TooFewImages(num_images) == num_images < MIN_IMAGES

\* (faulty variant) no number of point sets is too small
EnoughPointSets(num_point_sets) == FALSE

\* num_point_sets < 3
TooFewPointSets(num_point_sets) == num_point_sets < MIN_POINT_SETS

\* the runs of the environment: one failing step, or a solver answer
CalibrationRuns ==
    {[fault |-> f, solver |-> "all images", twist |-> Plain] :
        f \in {"rmtree", "makedirs", "database", "copy", "read"}}
    \cup {[fault |-> "none", solver |-> v, twist |-> Plain] : v \in SolverVariants}

\* the runs in which everything works up to the solver, whose answer is one
\* model of all images or two models of two, under any twist
AnsweredRuns ==
    [fault : {"none"}, solver : {"all images"} \cup TieVariants, twist : Twists]

\* run_calibration from "5. Parse PyCOLMAP Output" on, for the solver's answer
ParseOutput(s, run, reconstructions) ==
    IF reconstructions.kind = "none"
    THEN Report(s, "Calibration finished: No reconstruction dictionary.")
    ELSE IF reconstructions.models = <<>>
    THEN Report(s, "Calibration finished: No reconstruction models found.")
    ELSE LET best == LargestModel(reconstructions.models,
                         [largest_rec_id |-> -1, max_reg_images |-> -1,
                          largest_rec |-> None])
         IN  IF best.largest_rec_id = -1 \/ best.max_reg_images < 2
             THEN Report(s, "Calibration finished: Insufficient registered images.")
             ELSE IF run.fault = "read"
             THEN Report([s EXCEPT !.calibration_results = EmptyResults],
                         "Calibration finished with parsing errors.")
             ELSE LET parsed == ParsedResults(s, best.largest_rec)
                      stored == [s EXCEPT
                          !.calibration_results = parsed.calibration_results,
                          !.reprojection_errors = parsed.reprojection_errors]
                      drawn == redraw_markers_and_errors_for_current_image(
                          update_point_set_list(update_image_list(
                              Report(stored, "Updating UI with results..."))))
                  IN  IF drawn.raised # "none" THEN drawn
                      ELSE Report(drawn, "PyCOLMAP calibration successful.")

\* run_calibration from "Setup temporary working directory" on; a working
\* directory exists when the last build left a database
BuildAndSolve(s, run) ==
    IF run.fault = "rmtree" /\ s.colmap_db # EmptyDb
    THEN Report(s, "Calibration failed: Cleanup error.")
    ELSE LET fresh == [s EXCEPT !.colmap_db = EmptyDb]
         IN  IF run.fault = "makedirs"
             THEN Report(fresh, "Calibration failed: Directory creation error.")
             ELSE LET verified == VerifyDimensions(fresh, 0)
                  IN  IF ~verified.loaded
                      THEN Report(verified.state,
                                  "Calibration failed: Image dimension error.")
                      ELSE LET v == verified.state
                               built == populate_colmap_database(v.point_data,
                                   v.image_paths, v.image_dimensions,
                                   [keypoint_maps |-> v.keypoint_maps,
                                    keypoints_per_image |-> v.keypoints_per_image,
                                    colmap_db |-> v.colmap_db],
                                   IF run.fault = "database" THEN "open" ELSE "none")
                               populated == [v EXCEPT
                                   !.keypoint_maps = built.keypoint_maps,
                                   !.keypoints_per_image = built.keypoints_per_image,
                                   !.colmap_db = IF built.result THEN built.colmap_db
                                                 ELSE EmptyDb]
                           IN  IF ~built.result
                               THEN Report(populated,
                                   "Calibration failed: Error populating database/matches.")
                               ELSE IF run.fault = "copy"
                               THEN Report([populated EXCEPT !.colmap_db = EmptyDb],
                                           "Image Copy Error")
                               ELSE LET reconstructions ==
                                            IncrementalMapping(populated.colmap_db,
                                                run.solver, run.twist)
                                    IN  IF reconstructions.kind = "raise"
                                        THEN Report(populated,
                                            "Calibration failed: PyCOLMAP mapping error.")
                                        ELSE ParseOutput(populated, run, reconstructions)

\* run_calibration, PyCOLMAP being installed
run_calibration(s, run) ==
    IF TooFewImages(Len(s.image_paths))
    THEN Report(s, "Calibration failed: Need at least 2 images.")
    ELSE IF TooFewPointSets(Len(s.point_data))
    THEN Report(s, "Calibration failed: Insufficient point sets.")
    ELSE LET reset == [s EXCEPT !.calibration_results = None,
                                !.reprojection_errors = <<>>]
             drawn == redraw_markers_and_errors_for_current_image(
                          update_point_set_list(update_image_list(reset)))
         IN  IF drawn.raised # "none" THEN drawn ELSE BuildAndSolve(drawn, run)

\* ------------------------------------------------------------ gltf_exporter
\* (faulty variant) a basis change that is no rotation
ShearedBasisChange == <<(<<1, 0, 0>>), (<<0, 1, 1>>), (<<0, -1, 0>>)>>

\* Coordinate system transformation (OpenCV world -> glTF world), and the
\* camera convention transformation (OpenCV camera -> glTF camera)
OPENCV_TO_GLTF_ROT == <<(<<1, 0, 0>>), (<<0, 0, 1>>), (<<0, -1, 0>>)>>
CAMERA_CONVENTION_ROT == <<(<<1, 0, 0>>), (<<0, -1, 0>>), (<<0, 0, -1>>)>>

\* a float of the results or of an array: finite with a whole value, nan, or
\* an infinity with its sign
Finite(n) == [kind |-> "finite", val |-> n]
NaN == [kind |-> "nan", val |-> 0]
Infinity(sign) == [kind |-> "inf", val |-> sign]
isnan(x) == x.kind = "nan"
isinf(x) == x.kind = "inf"

\* np.array(..., dtype=np.float32) on one float
AsFloat32(x) ==
    IF x.kind # "finite" THEN x
    ELSE Finite(IF x.val < 0 THEN -Float32(-x.val) ELSE Float32(x.val))

\* c * x for an entry c of one of the two fixed matrices
Scaled(c, x) ==
    IF isnan(x) THEN NaN
    ELSE IF isinf(x) THEN (IF c = 0 THEN NaN ELSE Infinity(c * x.val))
    ELSE Finite(c * x.val)

\* x + y in float32
Sum32(x, y) ==
    IF isnan(x) \/ isnan(y) THEN NaN
    ELSE IF isinf(x) /\ isinf(y) THEN (IF x.val = y.val THEN x ELSE NaN)
    ELSE IF isinf(x) THEN x
    ELSE IF isinf(y) THEN y
    ELSE AsFloat32(Finite(x.val + y.val))

\* M @ v, M @ A and A @ M for a fixed matrix M
FixedMatVec(M, v) ==
    [i \in 1..3 |->
        Sum32(Sum32(Scaled(M[i][1], v[1]), Scaled(M[i][2], v[2])), Scaled(M[i][3], v[3]))]

FixedMatMul(M, A) ==
    [i \in 1..3 |-> [j \in 1..3 |->
        Sum32(Sum32(Scaled(M[i][1], A[1][j]), Scaled(M[i][2], A[2][j])),
              Scaled(M[i][3], A[3][j]))]]

MatMulFixed(A, M) ==
    [i \in 1..3 |-> [j \in 1..3 |->
        Sum32(Sum32(Scaled(M[1][j], A[i][1]), Scaled(M[2][j], A[i][2])),
              Scaled(M[3][j], A[i][3]))]]

AnyNonFinite(values) == \E x \in values : isnan(x) \/ isinf(x)
MatrixValues(A) == {A[i][j] : i \in 1..3, j \in 1..3}
VectorValues(v) == {v[i] : i \in 1..3}

\* str(x) for None and for an integer 0 .. 99, as its characters
DigitChar(d) == <<"0", "1", "2", "3", "4", "5", "6", "7", "8", "9">>[d + 1]
StrOf(x) ==
    IF x = None THEN <<"N", "o", "n", "e">>
    ELSE IF x.val < 10 THEN <<DigitChar(x.val)>>
    ELSE <<DigitChar(x.val \div 10), DigitChar(x.val % 10)>>

\* f"Point_{point_id}"
PointNodeName(point_id) == <<"P", "o", "i", "n", "t", "_">> \o StrOf(point_id)

\* the name of a camera node: the stem of the image's file name, or
\* f"CameraNode_{img_idx}" for an index outside of image_paths
CameraNodeName(img_idx, image_paths_) ==
    IF 0 <= img_idx /\ img_idx < Len(image_paths_)
    THEN [form |-> "stem", of |-> image_paths_[img_idx + 1].base]
    ELSE [form |-> "CameraNode_", of |-> img_idx]

\* the registered indices that get a camera definition
HasCameraDefinition(results, image_dimensions_, img_idx) ==
    /\ img_idx \in DOMAIN results.poses
    /\ img_idx \in DOMAIN results.intrinsics
    /\ ~AnyNonFinite(MatrixValues(results.intrinsics[img_idx].K))
    /\ img_idx \in DOMAIN image_dimensions_
    /\ image_dimensions_[img_idx][1] > 0
    /\ image_dimensions_[img_idx][2] > 0

\* camera.perspective: the field of view is 2 * arctan((img_h / 2) / fy),
\* kept as its argument, and pi / 2 for fy = 0
Perspective(K, dims) ==
    LET fx == AsFloat32(K[1][1]).val
        fy == AsFloat32(K[2][2]).val
    IN  [aspectRatio |-> IF fx = 0 THEN <<dims[1], dims[2]>>
                         ELSE <<dims[1] * fy, dims[2] * fx>>,
         yfov |-> [right_angle |-> fy = 0, arctan_of |-> <<dims[2], 2 * fy>>]]

\* gltf.cameras after the loop "Create Camera Definitions"
CameraDefinitions(results, image_paths_, image_dimensions_) ==
    LET defined == SelectSeq(results.registered_indices,
                       LAMBDA img_idx :
                           HasCameraDefinition(results, image_dimensions_, img_idx))
    IN  [n \in DOMAIN defined |->
            [img_idx |-> defined[n],
             perspective |-> Perspective(results.intrinsics[defined[n]].K,
                                         image_dimensions_[defined[n]])]]

\* img_idx_to_gltf_cam_idx: the last definition made for an index
GltfCamIdx(cameras, img_idx) ==
    (CHOOSE n \in DOMAIN cameras :
        /\ cameras[n].img_idx = img_idx
        /\ \A m \in DOMAIN cameras : cameras[m].img_idx = img_idx => m <= n) - 1

\* the checks of R_c2w_cv and t_c2w_cv before the transform: their shapes
\* (3 x 3 and 3 in every result of the model) and np.isnan / np.isinf
PoseAccepted(pose) ==
    ~AnyNonFinite({AsFloat32(x) : x \in MatrixValues(pose.R) \cup VectorValues(pose.t)})

\* T_cam_to_world_gltf.flatten(order='F'): column-major
NodeMatrix(R, C) ==
    <<R[1][1], R[2][1], R[3][1], Finite(0),
      R[1][2], R[2][2], R[3][2], Finite(0),
      R[1][3], R[2][3], R[3][3], Finite(0),
      C[1], C[2], C[3], Finite(1)>>

\* the node of a camera whose pose passed the checks; img_idx, and point in
\* a point node, record what the node was made for
CameraNode(results, image_paths_, cameras, img_idx) ==
    LET R_c2w_cv == [i \in 1..3 |-> [j \in 1..3 |-> AsFloat32(results.poses[img_idx].R[i][j])]]
        t_c2w_cv == [i \in 1..3 |-> AsFloat32(results.poses[img_idx].t[i])]
        R_c2w_gltf == MatMulFixed(FixedMatMul(OPENCV_TO_GLTF_ROT, R_c2w_cv),
                                  CAMERA_CONVENTION_ROT)
        C_gltf == FixedMatVec(OPENCV_TO_GLTF_ROT, t_c2w_cv)
    IN  [kind |-> "camera", name |-> CameraNodeName(img_idx, image_paths_),
         camera |-> GltfCamIdx(cameras, img_idx),
         matrix |-> NodeMatrix(R_c2w_gltf, C_gltf), img_idx |-> img_idx]

\* the nodes of the loop "Create Camera Nodes"
CameraNodes(results, image_paths_, cameras) ==
    LET noded == SelectSeq(results.registered_indices,
                     LAMBDA img_idx :
                         /\ \E n \in DOMAIN cameras : cameras[n].img_idx = img_idx
                         /\ img_idx \in DOMAIN results.poses
                         /\ PoseAccepted(results.poses[img_idx]))
    IN  [n \in DOMAIN noded |-> CameraNode(results, image_paths_, cameras, noded[n])]

\* the nodes of the loop "Create Empty Nodes for Points": sequential ids
\* when the two lists differ in length, no node for a point that is not
\* finite
PointNodes(results) ==
    LET points3d_gltf ==
            [m \in DOMAIN results.points_3d |->
                FixedMatVec(OPENCV_TO_GLTF_ROT,
                    [c \in 1..3 |-> AsFloat32(results.points_3d[m][c])])]
        point_ids_to_use ==
            IF Len(results.point_ids) # Len(points3d_gltf)
            THEN [m \in DOMAIN points3d_gltf |-> SetId(m - 1)]
            ELSE results.point_ids
        kept == SelectSeq([m \in DOMAIN points3d_gltf |-> m],
                    LAMBDA m : ~AnyNonFinite(VectorValues(points3d_gltf[m])))
    IN  [n \in DOMAIN kept |->
            [kind |-> "point", name |-> PointNodeName(point_ids_to_use[kept[n]]),
             translation |-> points3d_gltf[kept[n]], point |-> kept[n]]]

\* export_scene_to_gltf(filename, results, image_paths, image_dimensions),
\* pygltflib being installed and the file being writable: success, the
\* message and the file written
export_scene_to_gltf(results, image_paths_, image_dimensions_) ==
    IF results = None
    THEN [success |-> FALSE, file |-> None,
          message |-> "Invalid or empty 'results' dictionary provided."]
    ELSE LET cameras == CameraDefinitions(results, image_paths_, image_dimensions_)
             camera_nodes == CameraNodes(results, image_paths_, cameras)
             point_nodes == PointNodes(results)
         IN  IF camera_nodes = <<>> /\ point_nodes = <<>>
             THEN [success |-> FALSE, file |-> None,
                   message |-> "Export failed: No valid cameras or points could be processed."]
             ELSE [success |-> TRUE,
                   file |-> [cameras |-> cameras, nodes |-> camera_nodes \o point_nodes],
                   message |-> "Scene successfully exported"]


\* ------------------------------------------------------ the export handler
\* the parameters of export_scene_to_gltf, and the keywords of the call in
\* _do_export
ExporterParameters ==
    {"filename", "results", "image_paths", "image_dimensions", "generator_name"}
KeywordsOfDoExport ==
    {"filename", "results", "image_paths", "image_dimensions", "point_set_names",
     "generator_name"}

\* a call of export_scene_to_gltf by keywords: a keyword that is no parameter
\* of the function raises TypeError before the function runs
CallExporter(keywords, results, image_paths_, image_dimensions_) ==
    IF keywords \subseteq ExporterParameters
    THEN Return(export_scene_to_gltf(results, image_paths_, image_dimensions_))
    ELSE Raise("TypeError")

\* indices_to_check of _do_export
IndicesToCheck(results) ==
    IF results.registered_indices = <<>>
    THEN sorted(DOMAIN results.poses)
    ELSE results.registered_indices

\* the loop "Check image dimensions are available for registered images"
\* from position n on: the state after the lazy loads
RECURSIVE LazyLoaded(_, _, _)
LazyLoaded(s, indices, n) ==
    IF n > Len(indices) THEN s
    ELSE IF indices[n] \in DOMAIN s.image_dimensions THEN LazyLoaded(s, indices, n + 1)
    ELSE LazyLoaded(load_dimensions_for_image(s, indices[n]), indices, n + 1)

\* _do_export(filename), pygltflib being installed
do_export(s) ==
    IF s.calibration_results = None
    THEN Report(s, "Export failed: No calibration results available.")
    ELSE LET indices == IndicesToCheck(s.calibration_results)
             loaded == LazyLoaded(s, indices, 1)
         IN  IF \E n \in DOMAIN indices : indices[n] \notin DOMAIN loaded.image_dimensions
             THEN Report(loaded, "Cannot export: Image dimensions missing")
             ELSE LET call == CallExporter(KeywordsOfDoExport, loaded.calibration_results,
                                  loaded.image_paths, loaded.image_dimensions)
                  IN  IF ~call.ok
                      THEN [Report(loaded, "Exporting scene") EXCEPT !.raised = call.exc]
                      ELSE Report([loaded EXCEPT
                                      !.gltf_file = IF call.val.success
                                                    THEN call.val.file ELSE @],
                                  call.val.message)

\* export_scene_as, the dialog cancelled or accepted
export_scene_as(s, accepted) ==
    IF s.calibration_results = None
    THEN Report(s, "No calibration results available. Run calibration first.")
    ELSE IF accepted THEN do_export(s) ELSE s
\* ------------------------------------------------------------ project files
\* str(n) for an integer, as its characters, and int(chars)
RECURSIVE DecimalDigits(_)
DecimalDigits(n) ==
    IF n < 10 THEN <<DigitChar(n)>>
    ELSE DecimalDigits(n \div 10) \o <<DigitChar(n % 10)>>

Str(n) == IF n < 0 THEN <<"-">> \o DecimalDigits(-n) ELSE DecimalDigits(n)

\* name.strip() for a name as its characters
RECURSIVE Strip(_)
Strip(chars) ==
    IF chars = <<>> THEN <<>>
    ELSE IF Head(chars) = " " THEN Strip(Tail(chars))
    ELSE IF chars[Len(chars)] = " " THEN Strip(SubSeq(chars, 1, Len(chars) - 1))
    ELSE chars

DecimalChars == {DigitChar(d) : d \in 0..9}
DigitValue(c) == CHOOSE d \in 0..9 : DigitChar(d) = c

RECURSIVE DigitsValue(_)
DigitsValue(chars) ==
    IF chars = <<>> THEN 0
    ELSE 10 * DigitsValue(SubSeq(chars, 1, Len(chars) - 1)) + DigitValue(chars[Len(chars)])

\* the digits of an integer literal: the text without the blanks around it
\* and without its sign
Unsigned(chars) ==
    LET text == Strip(chars)
    IN  IF text # <<>> /\ Head(text) \in {"-", "+"} THEN Tail(text) ELSE text

\* int(chars) returns: otherwise it raises ValueError
IsIntLiteral(chars) ==
    /\ Unsigned(chars) # <<>>
    /\ \A n \in DOMAIN Unsigned(chars) : Unsigned(chars)[n] \in DecimalChars

\* int(chars) for an integer literal
Int_(chars) ==
    IF Head(Strip(chars)) = "-" THEN -DigitsValue(Unsigned(chars))
    ELSE DigitsValue(Unsigned(chars))

\* data_to_save: the keys of the three dicts as strings, the coordinates and
\* the dimensions as JSON numbers (their digits)
DataToSave(s) ==
    [image_paths |-> s.image_paths,
     point_data |->
        [n \in DOMAIN s.point_data |->
            [k |-> Str(s.point_data[n].k),
             v |-> [str_img_idx \in {Str(i) : i \in DOMAIN s.point_data[n].v} |->
                       LET point == s.point_data[n].v[Int_(str_img_idx)].coords
                       IN  <<Str(point[1]), Str(point[2])>>]]],
     point_set_names |->
        [str_set_id \in {Str(t) : t \in DOMAIN s.point_set_names} |->
            s.point_set_names[Int_(str_set_id)]],
     image_dimensions |->
        [str_img_idx \in {Str(i) : i \in DOMAIN s.image_dimensions} |->
            <<Str(s.image_dimensions[Int_(str_img_idx)][1]),
              Str(s.image_dimensions[Int_(str_img_idx)][2])>>]]

\* _write_points_to_file, the file being writable
write_points_to_file(s) ==
    IF s.point_data = <<>> /\ s.image_paths = <<>>
    THEN Report(s, "Nothing to save.")
    ELSE Report([s EXCEPT !.project_file = DataToSave(s)], "Points saved")

\* save_points_as, the dialog accepted or not
save_points_as(s, accepted) == IF accepted THEN write_points_to_file(s) ELSE s

\* _reset_state
reset_state(s) ==
    [clear_scene_and_pixmap(s) EXCEPT
        !.image_paths = <<>>, !.current_image_index = -1, !.point_data = <<>>,
        !.point_set_names = <<>>, !.active_point_set_index = -1,
        !.next_point_set_id = 0, !.image_dimensions = <<>>,
        !.calibration_results = None, !.reprojection_errors = <<>>,
        !.keypoint_maps = <<>>, !.selected_row = -1,
        !.point_set_list = {}, !.point_set_row = -1]

\* json.load(f) of a file: no such file, a file that is not JSON, or the
\* object of the file
NotJson == [tag |-> "not json"]
ReadJson(file) ==
    IF file = None THEN Raise("FileNotFoundError")
    ELSE IF file = NotJson THEN Raise("JSONDecodeError")
    ELSE Return(file)

\* key in loaded_data and isinstance(loaded_data[key], ...): the keys whose
\* value has another type are listed in the field wrong_type
HasTyped(loaded_data, key) ==
    /\ key \in DOMAIN loaded_data
    /\ "wrong_type" \in DOMAIN loaded_data => key \notin loaded_data.wrong_type

\* "Basic Format Validation"
ValidFormat(loaded_data) ==
    HasTyped(loaded_data, "image_paths") /\ HasTyped(loaded_data, "point_data")

\* the key of a loaded dict that int() turns into n (the drawn files hold no
\* two keys of one dict with the same value)
KeyOf(loaded_dict, n) ==
    CHOOSE k \in DOMAIN loaded_dict : IsIntLiteral(k) /\ Int_(k) = n

IntKeys(loaded_dict) == {Int_(k) : k \in {c \in DOMAIN loaded_dict : IsIntLiteral(c)}}

\* (faulty variant) every entry with an integer key is stored
EveryParsedDimension(loaded_dims) ==
    [img_idx \in {Int_(k) : k \in {c \in DOMAIN loaded_dims : IsIntLiteral(c)}} |->
        LET k == CHOOSE c \in DOMAIN loaded_dims : IsIntLiteral(c) /\ Int_(c) = img_idx
        IN  <<Int_(loaded_dims[k][1]), Int_(loaded_dims[k][2])>>]

\* the loop "Load Image Dimensions": an entry whose key is no integer or
\* whose width or height is not positive is left out
LoadedDimensions(loaded_dims) ==
    LET parsed == [img_idx \in IntKeys(loaded_dims) |->
                      <<Int_(loaded_dims[KeyOf(loaded_dims, img_idx)][1]),
                        Int_(loaded_dims[KeyOf(loaded_dims, img_idx)][2])>>]
    IN  [img_idx \in {i \in DOMAIN parsed : parsed[i][1] > 0 /\ parsed[i][2] > 0} |->
            parsed[img_idx]]

\* the observations loaded for a set: an observation whose key is no integer
\* or whose marker cannot be created (ValueError, TypeError, caught in the
\* loop) is skipped
LoadedObservations(s, set_id, observations_dict) ==
    LET coords_of(img_idx) ==
            <<Int_(observations_dict[KeyOf(observations_dict, img_idx)][1]),
              Int_(observations_dict[KeyOf(observations_dict, img_idx)][2])>>
        made(img_idx) == create_marker_item(s, coords_of(img_idx), set_id)
    IN  [img_idx \in {i \in IntKeys(observations_dict) : made(i).ok} |->
            [coords |-> coords_of(img_idx), marker |-> made(img_idx).val]]

\* the loop "Load Point Data" over the items of the file from n on: a set
\* whose key is no integer is skipped
RECURSIVE LoadedPointData(_, _, _)
LoadedPointData(s, items, n) ==
    IF n > Len(items) THEN s
    ELSE IF ~IsIntLiteral(items[n].k) THEN LoadedPointData(s, items, n + 1)
    ELSE LET set_id == Int_(items[n].k)
         IN  LoadedPointData(
                 [s EXCEPT !.point_data =
                      Put(@, set_id, LoadedObservations(s, set_id, items[n].v))],
                 items, n + 1)

\* max_set_id after the loop
MaxSetId(items) ==
    LET set_ids == {Int_(items[n].k) : n \in {i \in DOMAIN items : IsIntLiteral(items[i].k)}}
    IN  IF set_ids = {} THEN -1
        ELSE CHOOSE m \in set_ids : \A t \in set_ids : t <= m

\* the loop "Load Point Set Names": the names stripped, empty ones left out
LoadedNames(loaded_names) ==
    [set_id \in {t \in IntKeys(loaded_names) :
                    Strip(loaded_names[KeyOf(loaded_names, t)]) # <<>>} |->
        Strip(loaded_names[KeyOf(loaded_names, set_id)])]

\* _load_data_from_file from the reset on, for the object of a file that has
\* passed the format validation
LoadValidated(s, loaded_data) ==
    LET reset == [reset_state(s) EXCEPT
                     !.image_paths = loaded_data.image_paths,
                     !.image_dimensions =
                         IF HasTyped(loaded_data, "image_dimensions")
                         THEN LoadedDimensions(loaded_data.image_dimensions)
                         ELSE <<>>]
        with_points == LoadedPointData(reset, loaded_data.point_data, 1)
    IN  [state |-> Report([with_points EXCEPT
                              !.point_set_names =
                                  IF HasTyped(loaded_data, "point_set_names")
                                  THEN LoadedNames(loaded_data.point_set_names)
                                  ELSE <<>>,
                              !.next_point_set_id =
                                  MaxSetId(loaded_data.point_data) + 1],
                          "Project loaded"),
         loaded |-> TRUE]

\* (faulty variant) the state is reset before the file is read
ResetBeforeReading(s, file) ==
    IF ~ReadJson(file).ok \/ ~ValidFormat(ReadJson(file).val)
    THEN [state |-> Report(reset_state(s), "Load Error"), loaded |-> FALSE]
    ELSE LoadValidated(s, ReadJson(file).val)

\* _load_data_from_file
load_data_from_file(s, file) ==
    IF ~ReadJson(file).ok \/ ~ValidFormat(ReadJson(file).val)
    THEN [state |-> Report(s, "Load Error"), loaded |-> FALSE]
    ELSE LoadValidated(s, ReadJson(file).val)

\* open_project, the dialog cancelled or accepted with a file
open_project(s, accepted, file) ==
    IF ~accepted THEN s
    ELSE LET result == load_data_from_file(s, file)
         IN  IF ~result.loaded THEN result.state
             ELSE LET listed == update_point_set_list(update_image_list(result.state))
                  IN  IF listed.image_paths = <<>> THEN clear_scene_and_pixmap(listed)
                      ELSE IF listed.selected_row = 0 THEN display_image(listed, 0)
                      ELSE ImageListSetCurrentRow(listed, 0)

\* ------------------------------------------------------------------ actions
Called(op, args) == [op |-> op, args |-> args]

\* the file lists the image dialog can return: some of the files -1 ..
\* MaxImages - 1
RECURSIVE PathsOf(_)
PathsOf(ks) == IF ks = <<>> THEN <<>> ELSE <<PathOf(Head(ks))>> \o PathsOf(Tail(ks))
SelectableFiles == {PathsOf(sorted(ks)) : ks \in SUBSET (-1..(MaxImages - 1)) \ {{}}}

\* "Open Images": the dialog cancelled, or accepted with some files
OpenImages ==
    \E selected_files \in SelectableFiles \cup {<<>>} :
        /\ Apply(open_images(Enter(Self), selected_files # <<>>, selected_files))
        /\ called' = Called("open_images", selected_files)

\* the user makes another row of the image list current
SelectImage ==
    \E row \in 0..(Len(image_paths) - 1) :
        /\ row # selected_row
        /\ Apply(on_image_selection_changed(
                     [Enter(Self) EXCEPT !.selected_row = row], row))
        /\ called' = Called("on_image_selection_changed", <<row>>)

ActivateAddPointTool ==
    /\ Apply(activate_tool(Enter(Self), "add_move"))
    /\ called' = Called("activate_add_point_tool", <<>>)

ActivateDeletePointTool ==
    /\ Apply(activate_tool(Enter(Self), "delete"))
    /\ called' = Called("activate_delete_point_tool", <<>>)

\* a press and release on the background with the add tool: the view emits
\* scene_mouse_press; at most MaxCreates sets are created in a behaviour
SceneClick ==
    /\ tool_mode = "add_move"
    /\ Len(issued_ids) < MaxCreates
    /\ \E scene_pos \in ScenePositions :
          /\ Apply(handle_scene_click(Enter(Self), scene_pos))
          /\ called' = Called("handle_scene_click", <<scene_pos>>)

\* a press on a marker of the scene with the delete tool: the view emits
\* marker_action_click, and the user answers the confirmation
MarkerAction ==
    /\ tool_mode = "delete"
    /\ \E marker \in scene_markers, reply \in {"Yes", "No"} :
          /\ Apply(handle_marker_action(Enter(Self), marker[1], marker[2], reply))
          /\ called' = Called("handle_marker_action", <<marker[1], marker[2], reply>>)

\* the user makes another item of the point set list current
SelectPointSet ==
    \E set_id \in point_set_list :
        /\ set_id # point_set_row
        /\ Apply(on_point_set_selection_changed(
                     [Enter(Self) EXCEPT !.point_set_row = set_id], set_id))
        /\ called' = Called("on_point_set_selection_changed", <<set_id>>)

\* a call of add_point_to_set by itself, for any set id, image and position
AddObservation ==
    \E set_index \in 0..(MaxTracks - 1), image_index \in 0..(Len(image_paths) - 1),
       point_coords \in {P1, P2} :
        /\ Apply(add_point_to_set(Enter(Self), set_index, image_index, point_coords))
        /\ called' = Called("add_point_to_set", <<set_index, image_index, point_coords>>)

\* "Run Calibration", the environment answering in one of CalibrationRuns.
\* The menu action is enabled only with pycolmap imported, so the first
\* return of run_calibration is never taken.
RunCalibration ==
    \E run \in CalibrationRuns :
        /\ Apply(run_calibration(Enter(Self), run))
        /\ called' = Called("run_calibration", <<>>)

\* "Run Calibration" with everything working up to the solver, followed in a
\* project that has no result yet; the record of the call keeps the solver's
\* answer
RunCalibrationAnswered ==
    \E run \in AnsweredRuns :
        /\ calibration_results = None
        /\ Apply(run_calibration(Enter(Self), run))
        /\ called' = Called("run_calibration", <<run>>)

\* the values a build starts from
BuildState ==
    [keypoint_maps |-> keypoint_maps, keypoints_per_image |-> keypoints_per_image,
     colmap_db |-> colmap_db]

\* a call of _populate_colmap_database by itself, with the database library
\* working or failing
PopulateColmapDatabase ==
    \E fault \in {"none", "open"} :
        LET built == populate_colmap_database(point_data, image_paths,
                         image_dimensions, BuildState, fault)
        IN  /\ Apply([Enter(Self) EXCEPT
                         !.keypoint_maps = built.keypoint_maps,
                         !.keypoints_per_image = built.keypoints_per_image,
                         !.colmap_db = built.colmap_db,
                         !.outcome = built.outcome])
            /\ called' = Called("_populate_colmap_database", <<>>)


\* the projection step of the error loop on one observation: camera
\* parameters (f, cx, cy), a point (X, Y, Z) in camera coordinates in front
\* of the camera whose exact projection is a whole pixel, and an observation
\* that lies on the exact projection or one unit beside it
Focals == {10, 25, 55, 75}
Centres == {0, 1, 4}
Laterals == {-3, 0, 1, 3, 7}
Depths == {1, 2, 5, 11, 25}
Offsets == {0, 1}
Pixels == 0..255
ExactPixel(f, c, lateral, depth) == (f * lateral) \div depth + c
ProjectObservation ==
    \E f \in Focals, cx, cy \in Centres, X, Y \in Laterals, Z \in Depths, off \in Offsets :
        /\ reprojection_errors = <<>>
        /\ (f * X) % Z = 0 /\ (f * Y) % Z = 0
        /\ ExactPixel(f, cx, X, Z) \in Pixels /\ ExactPixel(f, cy, Y, Z) \in Pixels
        /\ LET observed_xy == <<ExactPixel(f, cx, X, Z) * Unit + off,
                                ExactPixel(f, cy, Y, Z) * Unit>>
           IN  /\ Apply([Enter(Self) EXCEPT !.reprojection_errors =
                       0 :> (0 :> ProjectionError(observed_xy, <<f, cx, cy>>, <<X, Y, Z>>))])
               /\ called' = Called("projection_error",
                                   <<observed_xy, <<f, cx, cy>>, <<X, Y, Z>>>>)

\* export_scene_to_gltf on the results, the image paths and the dimensions
\* of the window; a file is written when the export succeeds
ExportScene ==
    LET exported == export_scene_to_gltf(calibration_results, image_paths,
                                         image_dimensions)
    IN  /\ Apply([Enter(Self) EXCEPT
                    !.gltf_file = IF exported.success THEN exported.file ELSE @,
                    !.outcome = exported.message])
        /\ called' = Called("export_scene_to_gltf", <<>>)

\* "Save As": the dialog cancelled or accepted
SavePointsAs ==
    \E accepted \in BOOLEAN :
        /\ Apply(save_points_as(Enter(Self), accepted))
        /\ called' = Called("save_points_as", <<accepted>>)

\* the files the open dialog can return besides the project file last
\* written: a name without a file, a file that is not JSON, files failing the
\* format validation, and a hand-made project whose dicts hold keys that are
\* no integers, dimensions that are not positive, an image index beyond the
\* image list, a set without observations and a name for a set it lacks
HandMade ==
    [image_paths |-> <<PathOf(0), PathOf(1)>>,
     point_data |->
        <<[k |-> <<"0">>,
           v |-> (<<"0">> :> <<Str(P1[1]), Str(P1[2])>>) @@
                 (<<"7">> :> <<Str(P2[1]), Str(P2[2])>>) @@
                 (<<"x">> :> <<Str(P1[1]), Str(P1[2])>>)],
          [k |-> <<"y">>, v |-> (<<"0">> :> <<Str(P1[1]), Str(P1[2])>>)],
          [k |-> <<"1">>, v |-> <<>>]>>,
     point_set_names |-> (<<"4">> :> <<" ", "g", " ">>) @@ (<<"0">> :> <<" ">>),
     image_dimensions |->
        (<<"0">> :> <<Str(8), Str(6)>>) @@ (<<" ", "1">> :> <<Str(0), Str(6)>>) @@
        (<<"2">> :> <<Str(8), Str(-6)>>) @@ (<<"x">> :> <<Str(8), Str(6)>>)]

OtherFiles ==
    [missing |-> None,
     not_json |-> NotJson,
     no_image_paths |-> [point_data |-> <<>>],
     points_not_a_dict |-> [image_paths |-> <<PathOf(0)>>, point_data |-> <<>>,
                            wrong_type |-> {"point_data"}],
     hand_made |-> HandMade]

\* "Open Project": the dialog cancelled, or accepted with the project file
\* last written or with one of the other files
OpenProject ==
    \E accepted \in BOOLEAN :
    \E name \in IF accepted THEN {"saved"} \cup DOMAIN OtherFiles ELSE {"none"} :
        /\ Apply(open_project(Enter(Self), accepted,
                              IF name = "saved" THEN project_file ELSE OtherFiles[name]))
        /\ called' = Called("open_project", <<accepted, name>>)

\* the block "Map original app image index to COLMAP image_id" of
\* run_calibration by itself, on the database the last build has written:
\* the two maps, and the indices whose name the warning reports
MapImages ==
    /\ colmap_db # EmptyDb
    /\ LET o2c == OriginalIdxToColmapId(image_paths, colmap_db)
           c2o == ColmapIdToOriginalIdx(o2c)
       IN  /\ Apply(Enter(Self))
           /\ called' = Called("image_mapping",
                  [original_idx_to_colmap_id |-> o2c,
                   colmap_id_to_original_idx |-> c2o,
                   reported |-> (0..(Len(image_paths) - 1)) \ DOMAIN o2c])

\* "Export Scene As": the dialog cancelled or accepted
ExportSceneAs ==
    \E accepted \in BOOLEAN :
        /\ Apply(export_scene_as(Enter(Self), accepted))
        /\ called' = Called("export_scene_as", <<accepted>>)

\* the state an event handler of the view starts from
Received(s) == [Enter(s) EXCEPT !.view.emitted = <<>>]

\* a button that is up is pressed, over a marker of the scene or over the
\* background
MousePress ==
    \E button \in {"left", "middle"} \ view.buttons :
    \E item \in {MarkerItem(point_data, m[1], m[2]) : m \in scene_markers} \cup {None} :
    \E reply \in IF button = "left" /\ item # None /\ tool_mode = "delete"
                 THEN {"Yes", "No"} ELSE {"none"} :
        /\ Apply(mousePressEvent(
                     [Received(Self) EXCEPT !.view.buttons = @ \cup {button}],
                     button, item, reply))
        /\ called' = Called("mousePressEvent", <<button, item, reply>>)

\* the positions of the pointer that matter to the view: any while a marker
\* is dragged or a point placed, and one otherwise
PointerPositions ==
    IF view.dragged_marker # None \/ view.is_placing_new_marker
    THEN ScenePositions ELSE {P1}

\* the pointer moves while a button is held
MouseMove ==
    /\ view.buttons # {}
    /\ \E scene_pos \in PointerPositions :
          /\ Apply(mouseMoveEvent(Received(Self), scene_pos))
          /\ called' = Called("mouseMoveEvent", <<scene_pos>>)

\* a button that is down is released
MouseRelease ==
    \E button \in view.buttons :
    \E scene_pos \in IF button = "left" THEN PointerPositions ELSE {P1} :
        /\ button = "left" /\ view.is_placing_new_marker /\ tool_mode = "add_move"
               => Len(issued_ids) < MaxCreates
        /\ Apply(mouseReleaseEvent(
                     [Received(Self) EXCEPT !.view.buttons = @ \ {button}],
                     button, scene_pos))
        /\ called' = Called("mouseReleaseEvent", <<button, scene_pos>>)

\* the wheel is turned by one notch, within a few notches of the scale the
\* view was last set to
WheelNotches == -1..1

Wheel ==
    \E angle_delta \in {-120, 120} :
        /\ wheelEvent(Received(Self), angle_delta).view.transform.notches
               \in WheelNotches
        /\ Apply(wheelEvent(Received(Self), angle_delta))
        /\ called' = Called("wheelEvent", <<angle_delta>>)
\* ----------------------------------------------------------- specifications
\* the window after __init__
Fresh ==
    [image_paths |-> <<>>, current_image_index |-> -1, pixmap_item |-> FALSE,
     selected_row |-> -1, scene_markers |-> {}, tool_mode |-> "add_move",
     point_data |-> <<>>, point_set_names |-> <<>>,
     active_point_set_index |-> -1, next_point_set_id |-> 0,
     point_set_list |-> {}, point_set_row |-> -1, image_dimensions |-> <<>>,
     calibration_results |-> None, reprojection_errors |-> <<>>,
     keypoint_maps |-> <<>>, keypoints_per_image |-> <<>>, colmap_db |-> EmptyDb,
     project_file |-> None, gltf_file |-> None, view |-> ZoomableView,
     outcome |-> "none", raised |-> "none", issued_ids |-> <<>>, deleted_ids |-> {}]

\* the window is in state s, no handler having run
Holds(s) ==
    /\ image_paths = s.image_paths
    /\ current_image_index = s.current_image_index
    /\ pixmap_item = s.pixmap_item
    /\ selected_row = s.selected_row
    /\ scene_markers = s.scene_markers
    /\ tool_mode = s.tool_mode
    /\ point_data = s.point_data
    /\ point_set_names = s.point_set_names
    /\ active_point_set_index = s.active_point_set_index
    /\ next_point_set_id = s.next_point_set_id
    /\ point_set_list = s.point_set_list
    /\ point_set_row = s.point_set_row
    /\ image_dimensions = s.image_dimensions
    /\ calibration_results = s.calibration_results
    /\ reprojection_errors = s.reprojection_errors
    /\ keypoint_maps = s.keypoint_maps
    /\ keypoints_per_image = s.keypoints_per_image
    /\ colmap_db = s.colmap_db
    /\ project_file = s.project_file
    /\ gltf_file = s.gltf_file
    /\ view = s.view
    /\ outcome = s.outcome
    /\ raised = s.raised
    /\ issued_ids = s.issued_ids
    /\ deleted_ids = s.deleted_ids
    /\ called = Called("__init__", <<>>)

\* The program from its start. No observation is ever stored in it (every
\* marker construction raises), so its store stays empty.
Init == Holds(Fresh)

Next ==
    \/ OpenImages
    \/ SelectImage
    \/ ActivateAddPointTool
    \/ ActivateDeletePointTool
    \/ SceneClick
    \/ RunCalibration

Spec == Init /\ [][Next]_vars

\* ---------------------------------------------------------- drawn projects
\* the coordinate drawn for set s in image i: inside the image; the x of the
\* sets from 2 on has more than 24 significant bits
DrawnCoord(s, i) == <<(s + 2) * Unit + i + 1, (i + 1) * Unit + s>>

\* the observations of set s in the images of obs_images
DrawnObservations(s, obs_images) ==
    [i \in obs_images |-> Observation(s, DrawnCoord(s, i))]

\* the dicts with the keys of order, in that order
DrawnStore(order, images_of) ==
    [n \in DOMAIN order |->
        [k |-> order[n], v |-> DrawnObservations(order[n], images_of[order[n]])]]

\* the keys ids inserted in ascending and in descending order
DrawnOrders(ids) ==
    {sorted(ids), [n \in 1..Cardinality(ids) |-> sorted(ids)[Cardinality(ids) + 1 - n]]}

\* the orders in which the keys ids can have been inserted
InsertionOrders(ids) ==
    {o \in [1..Cardinality(ids) -> ids] : \A a, b \in DOMAIN o : a # b => o[a] # o[b]}

DrawnPaths(n) == [k \in 1..n |-> PathOf(k - 1)]

\* dimensions known for the images of known
DrawnDims(known) == [i \in known |-> PixmapSize(PathOf(i))]

\* A project with any tracks (a track may be empty) before its first build:
\* the tracks inserted in ascending or in descending order with the
\* dimensions of every image known, or in ascending order with the dimensions
\* of the last image unknown.
InitBuild ==
    \E n \in 0..MaxImages :
    \E ids \in SUBSET (0..(MaxTracks - 1)) :
    \E images_of \in [ids -> SUBSET (0..(n - 1))] :
    \E known \in {0..(n - 1), 0..(n - 2)} :
    \E order \in (IF known = 0..(n - 1) THEN DrawnOrders(ids) ELSE {sorted(ids)}) :
        Holds([Fresh EXCEPT
            !.image_paths = DrawnPaths(n),
            !.point_data = DrawnStore(order, images_of),
            !.point_set_list = ids,
            !.next_point_set_id = MaxTracks,
            !.image_dimensions = DrawnDims(known)])

NextBuild == PopulateColmapDatabase

SpecBuild == InitBuild /\ [][NextBuild]_vars

\* the store of the sets 0..k-1 in ascending order, the first w of them
\* observed in the images 0..m-1 and the others in image 0 only
WideAndNarrow(k, w, m) ==
    DrawnStore(sorted(0..(k - 1)),
               [t \in 0..(k - 1) |-> IF t < w THEN 0..(m - 1) ELSE {0}])

\* the window showing image index of a drawn project
Showing(project, index) == Emitted(display_image(project, index))

\* A project of MaxImages images and up to MaxTracks tracks, image 0 shown.
InitStore ==
    \E k \in 0..MaxTracks :
    \E w \in 0..k :
        Holds(Enter(Showing(
            [Fresh EXCEPT
                !.image_paths = DrawnPaths(MaxImages),
                !.selected_row = 0,
                !.point_data = WideAndNarrow(k, w, MaxImages),
                !.point_set_list = 0..(k - 1),
                !.next_point_set_id = k], 0)))

NextStore ==
    \/ SceneClick
    \/ AddObservation
    \/ MarkerAction
    \/ SelectPointSet
    \/ ActivateAddPointTool
    \/ ActivateDeletePointTool

SpecStore == InitStore /\ [][NextStore]_vars

\* A project of one image, or of MaxImages + 1 images, its last image shown;
\* as many tracks as a calibration needs, or one less, each observed in the
\* first image or in the first two. With more than one image the image
\* shown holds no point.
InitCalibration ==
    \E n \in {1, MaxImages + 1} :
    \E k \in {MIN_POINT_SETS - 1, MIN_POINT_SETS} :
    \E w \in 0..k :
        Holds(Enter(Showing(
            [Fresh EXCEPT
                !.image_paths = DrawnPaths(n),
                !.selected_row = n - 1,
                !.point_data = WideAndNarrow(k, w, IF n = 1 THEN 1 ELSE MIN_IMAGES),
                !.point_set_list = 0..(k - 1),
                !.next_point_set_id = k], n - 1)))

NextCalibration ==
    \/ RunCalibration
    \/ SelectImage
    \/ MarkerAction
    \/ ActivateAddPointTool
    \/ ActivateDeletePointTool

SpecCalibration == InitCalibration /\ [][NextCalibration]_vars


\* the images of the three tracks of a project for the parsing of solver
\* answers: all in both images; the first in image 0 only; the first in
\* image 1 only and the last in image 0 only; all in image 0 only
ParseStores ==
    {[t \in 0..2 |-> {0, 1}],
     [t \in 0..2 |-> IF t = 0 THEN {0} ELSE {0, 1}],
     [t \in 0..2 |-> IF t = 0 THEN {1} ELSE IF t = 1 THEN {0, 1} ELSE {0}],
     [t \in 0..2 |-> {0}]}

\* A project of three images, the last one (which holds no point) shown, and
\* three tracks over the first two.
InitParse ==
    \E images_of \in ParseStores :
        Holds(Enter(Showing(
            [Fresh EXCEPT
                !.image_paths = DrawnPaths(3),
                !.selected_row = 2,
                !.point_data = DrawnStore(sorted(0..2), images_of),
                !.point_set_list = 0..2,
                !.next_point_set_id = 3], 2)))

NextParse == RunCalibrationAnswered

SpecParse == InitParse /\ [][NextParse]_vars

\* ---- the projection of single observations
InitProjection == Holds(Fresh)

NextProjection == ProjectObservation

SpecProjection == InitProjection /\ [][NextProjection]_vars

\* ---- the export of drawn results
\* the floats of a value of the model
Floats3(v) == [i \in 1..3 |-> Finite(v[i])]
FloatMatrix(M) == [i \in 1..3 |-> Floats3(M[i])]

QuarterTurn == <<(<<0, -1, 0>>), (<<1, 0, 0>>), (<<0, 0, 1>>)>>

\* the rotations of a drawn pose: two rotations, a rotation with a nan and
\* one with an infinity, a scaled rotation, a singular matrix and a shear
DrawnRotations ==
    {FloatMatrix(Identity3), FloatMatrix(QuarterTurn),
     [FloatMatrix(Identity3) EXCEPT ![2][2] = NaN],
     [FloatMatrix(QuarterTurn) EXCEPT ![3][1] = Infinity(-1)],
     FloatMatrix(<<(<<2, 0, 0>>), (<<0, 2, 0>>), (<<0, 0, 2>>)>>),
     FloatMatrix(<<(<<1, 0, 0>>), (<<0, 1, 0>>), (<<0, 0, 0>>)>>),
     FloatMatrix(<<(<<1, 1, 0>>), (<<0, 1, 0>>), (<<0, 0, 1>>)>>)}

DrawnCentres == {Floats3(<<1, 2, 3>>), [Floats3(<<1, 2, 3>>) EXCEPT ![1] = NaN]}

\* the coordinates of a drawn point
Coordinates == {-2, 0, 3}
DrawnPoints == {Floats3(<<x, y, z>>) : x, y, z \in Coordinates}
LastPoints == {Floats3(<<1, 2, 3>>), [Floats3(<<1, 2, 3>>) EXCEPT ![3] = Infinity(1)]}

\* the point id lists of two points: each id resolved or None, or a list
\* that is too short
DrawnPointIds ==
    {<<a, b>> : a \in {SetId(0), None}, b \in {SetId(1), None}} \cup {<<SetId(0)>>}

DrawnK == FloatMatrix(<<(<<10, 0, 4>>), (<<0, 10, 3>>), (<<0, 0, 1>>)>>)

InitExport ==
    \E R \in DrawnRotations, t \in DrawnCentres, p \in DrawnPoints,
       q \in LastPoints, ids \in DrawnPointIds :
        Holds(Enter(Showing(
            [Fresh EXCEPT
                !.image_paths = DrawnPaths(2),
                !.selected_row = 1,
                !.image_dimensions = DrawnDims({0}),
                !.calibration_results =
                    [intrinsics |-> (0 :> [K |-> DrawnK]) @@ (1 :> [K |-> DrawnK]),
                     poses |-> (0 :> [R |-> FloatMatrix(Identity3),
                                      t |-> Floats3(<<0, 0, 0>>)])
                               @@ (1 :> [R |-> R, t |-> t]),
                     points_3d |-> <<p, q>>,
                     point_ids |-> ids,
                     registered_indices |-> <<0, 1>>]], 1)))

NextExport ==
    \/ ExportScene
    \/ ExportSceneAs

SpecExport == InitExport /\ [][NextExport]_vars

\* ---- saving and opening drawn projects
\* the custom names of a drawn project: none, or one for set 0
DrawnNames == {<<>>, 0 :> <<"a", " ", "b">>}

\* the name a renamed and then deleted set k has left behind
LeftBehind(k) == k :> <<"z">>

\* the result and the errors of a calibrated project: two registered images
\* and one point, of track 0, with an error in image 0
SolvedResults ==
    [intrinsics |-> (0 :> [K |-> DrawnK]) @@ (1 :> [K |-> DrawnK]),
     poses |-> (0 :> [R |-> FloatMatrix(Identity3), t |-> Floats3(<<0, 0, 0>>)])
               @@ (1 :> [R |-> FloatMatrix(QuarterTurn), t |-> Floats3(<<1, 2, 3>>)]),
     points_3d |-> <<Floats3(<<0, 0, 3>>)>>,
     point_ids |-> <<SetId(0)>>,
     registered_indices |-> <<0, 1>>]
SolvedErrors == 0 :> (0 :> ProjectionError(P1, <<10, 4, 3>>, <<1, 1, 3>>))

\* A project of MaxImages images and no or MaxTracks tracks, image 0 shown,
\* never saved; its last set may have been renamed and then deleted, and
\* the project of MaxTracks unnamed tracks may have been calibrated.
InitProject ==
    \E k \in {0, MaxTracks} :
    \E w \in {0, k} :
    \E names \in DrawnNames \cup {LeftBehind(k)} :
    \E solved \in {FALSE, k = MaxTracks /\ w = k /\ names = <<>>} :
        /\ DOMAIN names \subseteq 0..k
        /\ Holds(Enter(Showing(
              [Fresh EXCEPT
                  !.image_paths = DrawnPaths(MaxImages),
                  !.selected_row = 0,
                  !.point_data = WideAndNarrow(k, w, MaxImages),
                  !.point_set_names = names,
                  !.point_set_list = 0..(k - 1),
                  !.deleted_ids = IF k \in DOMAIN names THEN {k} ELSE {},
                  !.next_point_set_id = IF k \in DOMAIN names THEN k + 1 ELSE k,
                  !.calibration_results = IF solved THEN SolvedResults ELSE None,
                  !.reprojection_errors = IF solved THEN SolvedErrors ELSE <<>>], 0)))

NextProject ==
    \/ SavePointsAs
    \/ OpenProject
    \/ SelectImage
    \/ PopulateColmapDatabase

SpecProject == InitProject /\ [][NextProject]_vars

\* ---- the image mapping of the result parsing
\* an image with the basename of image 0 in another directory
SameNameElsewhere == [dir |-> "b", base |-> 0, readable |-> TRUE]

\* the image lists of the drawn projects: two or three different paths
MappedPaths ==
    LET pool == {PathOf(0), PathOf(1), SameNameElsewhere}
    IN  {paths \in [1..2 -> pool] \cup [1..3 -> pool] :
            \A a, b \in DOMAIN paths : a # b => paths[a] # paths[b]}

\* A project without points, the dimensions of its images known, its first
\* image shown.
InitMapping ==
    \E paths \in MappedPaths :
        Holds(Enter(Showing(
            [Fresh EXCEPT
                !.image_paths = paths,
                !.selected_row = 0,
                !.image_dimensions = [i \in 0..(Len(paths) - 1) |-> PixmapSize(paths[i + 1])]],
            0)))

NextMapping ==
    \/ PopulateColmapDatabase
    \/ MapImages
    \/ OpenImages

SpecMapping == InitMapping /\ [][NextMapping]_vars

\* A project of MaxImages images with no track or with MaxTracks tracks and
\* image 0 shown; the mouse and the wheel are used on the view and the tools
\* switched.
InitView ==
    \E k \in {0, MaxTracks} :
        Holds(Enter(Showing(
            [Fresh EXCEPT
                !.image_paths = DrawnPaths(MaxImages),
                !.selected_row = 0,
                !.point_data = WideAndNarrow(k, k, MaxImages),
                !.point_set_list = 0..(k - 1),
                !.next_point_set_id = k], 0)))

NextView ==
    \/ MousePress
    \/ MouseMove
    \/ MouseRelease
    \/ Wheel
    \/ ActivateAddPointTool
    \/ ActivateDeletePointTool

SpecView == InitView /\ [][NextView]_vars
\* ------------------------------------------------------- claims C1 .. C5
\* the last handler was a build that prepared the keypoint lists and maps
KeypointsPrepared ==
    outcome \in {"database populated", "Missing or invalid dimensions"}
\* the last handler was a build that wrote the database
DatabasePopulated == outcome = "database populated"

ImageIndices == 0..(Len(image_paths) - 1)
\* the tracks with an observation in image i
TracksIn(i) == {t \in Keys(point_data) : i \in DOMAIN Get(point_data, t)}

\* C1: after a build, keypoint_maps[i] is for every image i a bijection
\* between the tracks observed in i and 0..n-1, and the inverse map of the
\* result mapping sends every keypoint index back to its track.
C1_KeypointMapsBijective ==
    KeypointsPrepared =>
        /\ DOMAIN keypoint_maps = ImageIndices
        /\ \A i \in ImageIndices :
              LET m == keypoint_maps[i]
                  inv == InverseKeypointMap(m)
              IN  /\ DOMAIN m = TracksIn(i)
                  /\ {m[t] : t \in DOMAIN m} = 0..(Cardinality(TracksIn(i)) - 1)
                  /\ \A a, b \in DOMAIN m : m[a] = m[b] => a = b
                  /\ DOMAIN inv = 0..(Cardinality(TracksIn(i)) - 1)
                  /\ \A t \in DOMAIN m : inv[m[t]] = t

\* a build for an image with two tracks and a lower-numbered track it lacks
C1_Witness ==
    /\ DatabasePopulated
    /\ \E i \in ImageIndices :
          /\ Cardinality(TracksIn(i)) >= 2
          /\ \E t \in TracksIn(i), u \in Keys(point_data) \ TracksIn(i) : u < t

\* C2: the matches written for a pair i < j are exactly the pairs of keypoint
\* indices of the tracks observed in both images, one per common track; a
\* pair without a common track has no entry.
C2_MatchesAreCommonTracks ==
    DatabasePopulated =>
        /\ DOMAIN colmap_db.matches \subseteq
              {<<ImageId(pr[1]), ImageId(pr[2])>> : pr \in ImagePairs(Len(image_paths))}
        /\ \A i, j \in ImageIndices :
              i < j =>
                LET common == TracksIn(i) \cap TracksIn(j)
                    ids == <<ImageId(i), ImageId(j)>>
                IN  IF common = {}
                    THEN ids \notin DOMAIN colmap_db.matches
                    ELSE /\ ids \in DOMAIN colmap_db.matches
                         /\ Range(colmap_db.matches[ids]) =
                               {<<keypoint_maps[i][t], keypoint_maps[j][t]>> : t \in common}
                         /\ Len(colmap_db.matches[ids]) = Cardinality(common)

\* a pair with two common tracks, one of them at different positions in the
\* two images
C2_Witness ==
    /\ DatabasePopulated
    /\ \E i, j \in ImageIndices :
          /\ i < j
          /\ Cardinality(TracksIn(i) \cap TracksIn(j)) >= 2
          /\ \E t \in TracksIn(i) \cap TracksIn(j) :
                keypoint_maps[i][t] # keypoint_maps[j][t]

\* C3: within an image the keypoint positions ascend with the track id, and
\* the record at a track's position carries the coordinates of its observation.
C3_KeypointsAscendWithTrackId ==
    KeypointsPrepared =>
        \A i \in ImageIndices :
            /\ \A a, b \in TracksIn(i) :
                  a < b => keypoint_maps[i][a] < keypoint_maps[i][b]
            /\ \A t \in TracksIn(i) :
                  /\ keypoint_maps[i][t] + 1 \in DOMAIN keypoints_per_image[i]
                  /\ keypoints_per_image[i][keypoint_maps[i][t] + 1] =
                        <<Get(point_data, t)[i].coords[1],
                          Get(point_data, t)[i].coords[2], 1, 0>>

\* a build of a store whose keys were not inserted in ascending order, for
\* an image that two of its tracks share
C3_Witness ==
    /\ DatabasePopulated
    /\ KeySeq(point_data) # sorted(Keys(point_data))
    /\ \E i \in ImageIndices : Cardinality(TracksIn(i)) >= 2

\* the store with the same items, keyed in the order o
Reinserted(pd, o) == [n \in DOMAIN o |-> [k |-> o[n], v |-> Get(pd, o[n])]]

\* C4: the output of a build is that of a build of any store with the same
\* tracks inserted in another order, and of a second build of this store.
C4_BuildDependsOnContentsOnly ==
    KeypointsPrepared =>
        \A o \in InsertionOrders(Keys(point_data)) :
            LET again == populate_colmap_database(Reinserted(point_data, o),
                             image_paths, image_dimensions, BuildState, "none")
            IN  /\ again.keypoint_maps = keypoint_maps
                /\ again.keypoints_per_image = keypoints_per_image
                /\ again.colmap_db = colmap_db

\* a build of a store of three tracks inserted in descending order
C4_Witness ==
    /\ DatabasePopulated
    /\ Cardinality(Keys(point_data)) >= 3
    /\ \A a, b \in DOMAIN point_data : a < b => point_data[a].k > point_data[b].k
    /\ \E i \in ImageIndices : Cardinality(TracksIn(i)) >= 2

\* scenario A: 2 images, 3 tracks, each observed in both images
ScenarioA ==
    /\ DatabasePopulated
    /\ Len(image_paths) = 2
    /\ Cardinality(Keys(point_data)) = 3
    /\ \A t \in Keys(point_data) : DOMAIN Get(point_data, t) = {0, 1}

\* C5 as stated: scenario A gives exactly 2 keypoints per image and exactly 3
\* matches for the pair.
C5_ScenarioA_TwoKeypoints ==
    ScenarioA =>
        /\ \A i \in ImageIndices : Len(keypoints_per_image[i]) = 2
        /\ Len(colmap_db.matches[<<ImageId(0), ImageId(1)>>]) = 3

\* C5 amended: scenario A gives exactly 3 keypoints per image (one per track)
\* and exactly 3 matches for the single image pair.
C5_ScenarioA_ThreeKeypoints ==
    ScenarioA =>
        /\ \A i \in ImageIndices :
              /\ Len(keypoints_per_image[i]) = 3
              /\ Len(colmap_db.keypoints[ImageId(i)]) = 3
        /\ DOMAIN colmap_db.matches = {<<ImageId(0), ImageId(1)>>}
        /\ Len(colmap_db.matches[<<ImageId(0), ImageId(1)>>]) = 3

C5_Witness == ScenarioA


\* ------------------------------------------------------ claims C6 .. C10
\* the status messages of the two insufficient-data returns
InsufficientData ==
    {"Calibration failed: Need at least 2 images.",
     "Calibration failed: Insufficient point sets."}

\* C6: a calibration run started with fewer than 2 images or fewer than 3
\* tracks ends with an insufficient-data message, and leaves the store, the
\* keypoint maps and lists, the database, the previous calibration result
\* and the previous reprojection errors as they were.
C6_InsufficientDataChangesNothing ==
    [][(/\ called'.op = "run_calibration"
        /\ (Len(image_paths) < 2 \/ Cardinality(Keys(point_data)) < 3))
       => /\ outcome' \in InsufficientData
          /\ raised' = "none"
          /\ point_data' = point_data
          /\ keypoint_maps' = keypoint_maps
          /\ keypoints_per_image' = keypoints_per_image
          /\ colmap_db' = colmap_db
          /\ calibration_results' = calibration_results
          /\ reprojection_errors' = reprojection_errors]_vars

\* a run refused for its two tracks, in a project that holds the maps, the
\* result and the errors of an earlier successful run
C6_Witness ==
    /\ called.op = "run_calibration"
    /\ outcome = "Calibration failed: Insufficient point sets."
    /\ Len(image_paths) >= 2
    /\ Cardinality(Keys(point_data)) = 2
    /\ calibration_results # None
    /\ reprojection_errors # <<>>
    /\ keypoint_maps # <<>>
    /\ colmap_db # EmptyDb

\* the ids stored, deleted or handed out so far
KnownIds ==
    Keys(point_data) \cup deleted_ids
        \cup {issued_ids[n].id : n \in DOMAIN issued_ids}

\* C7: every id handed out by create_new_point_set was never used before in
\* the project, the ids handed out ascend strictly, and the counter is above
\* every id stored, deleted or handed out, so no deleted id comes back.
C7_TrackIdsNeverReused ==
    /\ \A n \in DOMAIN issued_ids : issued_ids[n].fresh
    /\ \A a, b \in DOMAIN issued_ids :
          a < b => issued_ids[a].id < issued_ids[b].id
    /\ \A t \in KnownIds : t < next_point_set_id
    /\ deleted_ids \cap Keys(point_data) = {}

\* two ids handed out, the second after a set was deleted
C7_Witness ==
    /\ Len(issued_ids) = 2
    /\ issued_ids[2].after_delete
    /\ deleted_ids # {}
    /\ called.op = "handle_scene_click"

\* C8 as stated: a step of create_new_point_set (the only one to advance the
\* counter) does not fail, stores exactly one new set under the allocated id
\* with the clicked position in the image shown as its only observation,
\* makes it the active set and leaves the other sets as they were.
C8_CreateTrackNeverFails ==
    [][next_point_set_id' # next_point_set_id
       => LET id == next_point_set_id
          IN  /\ raised' = "none"
              /\ Keys(point_data') = Keys(point_data) \cup {id}
              /\ id \notin Keys(point_data)
              /\ DOMAIN Get(point_data', id) = {current_image_index}
              /\ Get(point_data', id)[current_image_index].coords = called'.args[1]
              /\ active_point_set_index' = id
              /\ \A t \in Keys(point_data) :
                    Get(point_data', t) = Get(point_data, t)]_vars

\* the removal a step makes: the set and image of a confirmed deletion
RemovedLast(set_index, image_index) ==
    /\ called'.op = "handle_marker_action"
    /\ called'.args = <<set_index, image_index, "Yes">>
    /\ set_index \in Keys(point_data)
    /\ DOMAIN Get(point_data, set_index) = {image_index}

\* C9: the confirmed deletion of the only observation of a set removes the
\* set from the store, clears the active set if it was that one and leaves
\* the other sets as they were; add_point_to_set for a deleted id reports a
\* non-existent set and changes nothing.
C9_LastObservationRemovesTrack ==
    [][/\ \A set_index \in Keys(point_data) :
          \A image_index \in 0..(Len(image_paths) - 1) :
             RemovedLast(set_index, image_index)
             => /\ Keys(point_data') = Keys(point_data) \ {set_index}
                /\ \A t \in Keys(point_data') :
                      Get(point_data', t) = Get(point_data, t)
                /\ active_point_set_index' =
                      IF active_point_set_index = set_index
                      THEN -1 ELSE active_point_set_index
                /\ next_point_set_id' = next_point_set_id
       /\ (/\ called'.op = "add_point_to_set"
           /\ called'.args[1] \in deleted_ids)
          => /\ outcome' = "Error: Trying to add point to non-existent set"
             /\ raised' = "none"
             /\ point_data' = point_data
             /\ active_point_set_index' = active_point_set_index
             /\ next_point_set_id' = next_point_set_id
             /\ scene_markers' = scene_markers
             /\ deleted_ids' = deleted_ids]_vars

\* an add refused for the id of a set that the deletion of its only
\* observation removed, other sets being stored
C9_Witness ==
    /\ called.op = "add_point_to_set"
    /\ called.args[1] \in deleted_ids
    /\ called.args[1] \notin Keys(point_data)
    /\ point_data # <<>>
    /\ outcome = "Error: Trying to add point to non-existent set"

\* C10: add_point_to_set for a set that has an observation of the image is
\* refused with a message: the stored observation and everything else of the
\* store stay as they were.
C10_SecondObservationRejected ==
    [][(/\ called'.op = "add_point_to_set"
        /\ called'.args[1] \in Keys(point_data)
        /\ called'.args[2] \in DOMAIN Get(point_data, called'.args[1]))
       => /\ outcome' = "Error: Image already has a point in set"
          /\ raised' = "none"
          /\ point_data' = point_data
          /\ active_point_set_index' = active_point_set_index
          /\ next_point_set_id' = next_point_set_id
          /\ scene_markers' = scene_markers
          /\ deleted_ids' = deleted_ids
          /\ issued_ids' = issued_ids]_vars

\* an add refused for an observed image, at a position other than the one
\* stored
C10_Witness ==
    /\ called.op = "add_point_to_set"
    /\ outcome = "Error: Image already has a point in set"
    /\ called.args[1] \in Keys(point_data)
    /\ called.args[2] \in DOMAIN Get(point_data, called.args[1])
    /\ Get(point_data, called.args[1])[called.args[2]].coords # called.args[3]

\* ----------------------------------------------------- claims C11 .. C20
\* the last handler was a calibration run that parsed the solver's answer
\* kept in the record of the call
Parsed ==
    /\ called.op = "run_calibration"
    /\ called.args # <<>>
    /\ outcome = "PyCOLMAP calibration successful."

\* the models the solver answered with in the last run
AnsweredModels ==
    IncrementalMapping(colmap_db, called.args[1].solver, called.args[1].twist).models

\* the reconstruction the last run processed
ProcessedRec ==
    LargestModel(AnsweredModels,
        [largest_rec_id |-> -1, max_reg_images |-> -1, largest_rec |-> None]).largest_rec

\* the observation el names a keypoint of a track: its image id is that of
\* an image of the project, and a track of that image has its keypoint index
Resolves(el) ==
    \E i \in ImageIndices :
        /\ ImageId(i) = el.image_id
        /\ \E t \in TracksIn(i) : keypoint_maps[i][t] = el.point2D_idx

\* the track a resolving observation names
TrackOfElement(el) ==
    CHOOSE t \in Keys(point_data) :
        \E i \in ImageIndices :
            /\ ImageId(i) = el.image_id
            /\ t \in TracksIn(i)
            /\ keypoint_maps[i][t] = el.point2D_idx

\* the positions of the resolving observations in a list
Resolving(track) == {e \in DOMAIN track : Resolves(track[e])}

\* C11: point_ids has one entry per reconstructed point, in the order of
\* points_3d; the entry is the track named by the first observation of the
\* point that resolves, and None when no observation resolves.
C11_PointIdOfFirstResolvingObservation ==
    Parsed =>
        LET points == ProcessedRec.points3D
            result == calibration_results
        IN  /\ Len(result.point_ids) = Len(points)
            /\ Len(result.points_3d) = Len(points)
            /\ \A m \in DOMAIN points :
                  /\ result.points_3d[m] = points[m].xyz
                  /\ LET res == Resolving(points[m].track)
                     IN  IF res = {} THEN result.point_ids[m] = None
                         ELSE LET first == CHOOSE e \in res : \A x \in res : e <= x
                              IN  result.point_ids[m] =
                                      SetId(TrackOfElement(points[m].track[first]))

\* a point with two resolving observations that name different tracks: its
\* entry is the track of the earlier one
C11_Witness ==
    /\ Parsed
    /\ \E m \in DOMAIN ProcessedRec.points3D :
          LET track == ProcessedRec.points3D[m].track
          IN  \E a, b \in Resolving(track) :
                 /\ a < b
                 /\ TrackOfElement(track[a]) # TrackOfElement(track[b])
                 /\ calibration_results.point_ids[m] = SetId(TrackOfElement(track[a]))

\* model x comes before model y in the stated policy: more registered
\* images, then more 3-D points, then the lower model id
PreferredTo(x, y) ==
    \/ num_reg_images(x.rec) > num_reg_images(y.rec)
    \/ /\ num_reg_images(x.rec) = num_reg_images(y.rec)
       /\ \/ Len(x.rec.points3D) > Len(y.rec.points3D)
          \/ /\ Len(x.rec.points3D) = Len(y.rec.points3D)
             /\ x.rec_id <= y.rec_id

\* the model the stated policy selects among those the solver answered with
PolicyModel ==
    CHOOSE x \in Range(AnsweredModels) :
        \A y \in Range(AnsweredModels) : PreferredTo(x, y)

\* C12 as stated: the reconstruction processed is the one with the most
\* registered images, among those the one with the most 3-D points, among
\* those the one with the lowest id, whatever the order of the solver's list.
C12_LargestModelByPolicy ==
    Parsed =>
        /\ ProcessedRec = PolicyModel.rec
        /\ calibration_results.points_3d =
               [m \in DOMAIN PolicyModel.rec.points3D |-> PolicyModel.rec.points3D[m].xyz]

\* the image indices whose image the processed reconstruction registered
RegisteredInRec == {i \in ImageIndices : ImageId(i) \in DOMAIN ProcessedRec.images}

\* the camera of image index i in the processed reconstruction is a
\* SIMPLE_PINHOLE camera with its three parameters
SupportedCamera(i) ==
    LET camera == ProcessedRec.cameras[ProcessedRec.images[ImageId(i)].camera_id]
    IN  camera.model = "SIMPLE_PINHOLE" /\ Len(camera.params) = 3

\* C13 as stated: after a completed run every index of registered_indices
\* has a pose and an intrinsics entry; the registered images with a supported
\* camera are all listed, and an image with another camera model or with
\* malformed parameters is left out.
C13_RegisteredHavePoseAndIntrinsics ==
    Parsed =>
        LET result == calibration_results
        IN  /\ \A i \in Range(result.registered_indices) :
                  i \in DOMAIN result.poses /\ i \in DOMAIN result.intrinsics
            /\ Range(result.registered_indices) =
                  {i \in RegisteredInRec : SupportedCamera(i)}

\* the track the list of observations of a point resolves to, as a value of
\* point_ids
ResolvedTrack(track) ==
    LET res == Resolving(track)
    IN  IF res = {} THEN None
        ELSE SetId(TrackOfElement(track[CHOOSE e \in res : \A x \in res : e <= x]))

\* point p of the processed reconstruction is observed in image index i, at
\* a keypoint the image has
ObservedIn(p, i) ==
    \E e \in DOMAIN p.track :
        /\ p.track[e].image_id = ImageId(i)
        /\ p.track[e].point2D_idx < Len(keypoints_per_image[i])

\* the depth of point p before the camera of image index i
DepthIn(p, i) ==
    LET pose == ProcessedRec.images[ImageId(i)].cam_from_world
    IN  pose.R[3][1] * p.xyz[1] + pose.R[3][2] * p.xyz[2] + pose.R[3][3] * p.xyz[3]
            + pose.t[3]

\* the observations of point p all name keypoints of one track
OneTrack(p) ==
    \A e \in DOMAIN p.track :
        Resolves(p.track[e]) /\ SetId(TrackOfElement(p.track[e])) = ResolvedTrack(p.track)

\* the reconstructed points that account for an entry (t, i) of
\* reprojection_errors: resolved to t, observed in i, before its camera
PointsBehindEntry(t, i) ==
    {m \in DOMAIN ProcessedRec.points3D :
        LET p == ProcessedRec.points3D[m]
        IN  /\ ResolvedTrack(p.track) = SetId(t)
            /\ ObservedIn(p, i)
            /\ DepthIn(p, i) > 0}

\* every answered run completes
AnsweredRunsComplete == (called.op = "run_calibration" /\ called.args # <<>>) => Parsed

\* C14 as stated: an entry (t, i) of reprojection_errors exists only if image
\* i is registered, a point resolved to t is observed in i before the
\* camera, and track t has an observation of image i in the store; no answer
\* of the solver aborts the run.
C14_ErrorEntriesOnlyForStoredObservations ==
    /\ AnsweredRunsComplete
    /\ Parsed =>
          \A t \in DOMAIN reprojection_errors :
              \A i \in DOMAIN reprojection_errors[t] :
                  /\ i \in RegisteredInRec
                  /\ PointsBehindEntry(t, i) # {}
                  /\ t \in Keys(point_data)
                  /\ i \in DOMAIN Get(point_data, t)

\* C14 amended: an entry (t, i) exists only if image i is registered and a
\* point resolved to t is observed in i before the camera; track t has an
\* observation of image i in the store if the observations of such a point
\* all name keypoints of one track; no answer of the solver aborts the run.
C14_ErrorEntriesOnlyForResolvedPoints ==
    /\ AnsweredRunsComplete
    /\ Parsed =>
          \A t \in DOMAIN reprojection_errors :
              \A i \in DOMAIN reprojection_errors[t] :
                  /\ i \in RegisteredInRec
                  /\ PointsBehindEntry(t, i) # {}
                  /\ t \in Keys(point_data)
                  /\ (\E m \in PointsBehindEntry(t, i) : OneTrack(ProcessedRec.points3D[m]))
                        => i \in DOMAIN Get(point_data, t)

\* a run with entries whose answer also held a point behind a camera or an
\* unresolved point, which got no entry
C14_Witness ==
    /\ Parsed
    /\ reprojection_errors # <<>>
    /\ \E m \in DOMAIN ProcessedRec.points3D :
          LET p == ProcessedRec.points3D[m]
          IN  \E i \in RegisteredInRec :
                 /\ ObservedIn(p, i)
                 /\ \/ ResolvedTrack(p.track) = None
                    \/ /\ ResolvedTrack(p.track) # None
                       /\ DepthIn(p, i) <= 0
                       /\ \/ ResolvedTrack(p.track).val \notin DOMAIN reprojection_errors
                          \/ i \notin DOMAIN reprojection_errors[ResolvedTrack(p.track).val]

\* ---- C15
\* the observation, camera parameters and point of the projection made
Projected == called.op = "projection_error"
ProjectedObservation == called.args[1]
ProjectedParams == called.args[2]
ProjectedPoint == called.args[3]
ProjectedEntry == reprojection_errors[0][0]
FloatZero == Whole(0)

\* how far the observation lies from the exact pinhole projection, in units
\* of 1 / Unit pixel
OffExactProjection ==
    <<ProjectedObservation[1]
        - ExactPixel(ProjectedParams[1], ProjectedParams[2],
                     ProjectedPoint[1], ProjectedPoint[3]) * Unit,
      ProjectedObservation[2]
        - ExactPixel(ProjectedParams[1], ProjectedParams[3],
                     ProjectedPoint[2], ProjectedPoint[3]) * Unit>>

OnExactProjection == Projected /\ OffExactProjection = <<0, 0>>

\* x / z is a float64 without rounding
ExactQuotient(x, z) == \E k \in 0..8 : ((IF x < 0 THEN -x ELSE x) * Pow2(k)) % z = 0

\* |d| < 2^-40
Negligible(d) == d.mag = <<>> \/ BitsOf(d.mag) + d.exp <= -40

PassesSanityChecks ==
    ~TooFewImages(Len(image_paths)) /\ ~TooFewPointSets(Len(point_data))

\* the keypoint maps a run builds from the store it finds
MapsOfRun ==
    [i \in 0..(Len(image_paths) - 1) |->
        KeypointOrder(point_data, Len(image_paths))[i].map]

NoMapEntries(maps) == \A i \in DOMAIN maps : maps[i] = <<>>

\* the tracks a calibration result and the reprojection errors speak of
TracksOfResult(results) ==
    IF results = None THEN {}
    ELSE {results.point_ids[m].val :
             m \in {n \in DOMAIN results.point_ids : results.point_ids[n] # None}}

\* C16: a calibration run that passes the sanity checks ends, successfully
\* or not, with keypoint maps, a calibration result and reprojection errors
\* that hold entries of this run only: the keypoint maps are those built
\* from the store of this run or hold no entry, and the result and the
\* errors are empty or speak of tracks of the store of this run.
C16_RunReplacesWholesale ==
    [][(called'.op = "run_calibration" /\ PassesSanityChecks)
       => /\ keypoint_maps' = MapsOfRun \/ NoMapEntries(keypoint_maps')
          /\ TracksOfResult(calibration_results') \subseteq Keys(point_data)
          /\ DOMAIN reprojection_errors' \subseteq Keys(point_data)]_vars

\* the part of C16 about the calibration result and the reprojection errors
C16_ResultAndErrorsOfThisRun ==
    [][(called'.op = "run_calibration" /\ PassesSanityChecks)
       => /\ TracksOfResult(calibration_results') \subseteq Keys(point_data)
          /\ DOMAIN reprojection_errors' \subseteq Keys(point_data)]_vars

\* ---- C17
MatMul(A, B) ==
    [i \in 1..3 |-> [j \in 1..3 |->
        A[i][1] * B[1][j] + A[i][2] * B[2][j] + A[i][3] * B[3][j]]]

\* entries in {-1, 0, 1}, exactly one of them non-zero in every row and in
\* every column
SignedPermutation(M) ==
    /\ \A i, j \in 1..3 : M[i][j] \in {-1, 0, 1}
    /\ \A i \in 1..3 : Cardinality({j \in 1..3 : M[i][j] # 0}) = 1
    /\ \A j \in 1..3 : Cardinality({i \in 1..3 : M[i][j] # 0}) = 1

TransposeIsInverse(M) ==
    /\ MatMul(M, Transpose(M)) = Identity3
    /\ MatMul(Transpose(M), M) = Identity3

\* the points of the results whose coordinates are finite, as whole vectors
FinitePoints ==
    {m \in DOMAIN calibration_results.points_3d :
        ~AnyNonFinite(VectorValues(calibration_results.points_3d[m]))}
WholePoint(v) == [i \in 1..3 |-> v[i].val]

PointNodesOfFile ==
    IF gltf_file = None THEN {}
    ELSE {gltf_file.nodes[n] :
             n \in {k \in DOMAIN gltf_file.nodes : gltf_file.nodes[k].kind = "point"}}

CameraNodesOfFile ==
    IF gltf_file = None THEN {}
    ELSE {gltf_file.nodes[n] :
             n \in {k \in DOMAIN gltf_file.nodes : gltf_file.nodes[k].kind = "camera"}}

\* C17: OPENCV_TO_GLTF_ROT (Rw) and CAMERA_CONVENTION_ROT (Rc) are signed
\* permutation matrices whose inverse is their transpose; for every point p
\* of the results Rw (Rw^T p) = p and Rw^T (Rw p) = p, and the transpose of
\* Rw takes the translation of every exported point node back to the point
\* it was made for.
C17_BasisChangesAreSignedPermutations ==
    /\ SignedPermutation(OPENCV_TO_GLTF_ROT)
    /\ SignedPermutation(CAMERA_CONVENTION_ROT)
    /\ TransposeIsInverse(OPENCV_TO_GLTF_ROT)
    /\ TransposeIsInverse(CAMERA_CONVENTION_ROT)
    /\ \A m \in FinitePoints :
          LET p == WholePoint(calibration_results.points_3d[m])
          IN  /\ MatVec(OPENCV_TO_GLTF_ROT, MatVec(Transpose(OPENCV_TO_GLTF_ROT), p)) = p
              /\ MatVec(Transpose(OPENCV_TO_GLTF_ROT), MatVec(OPENCV_TO_GLTF_ROT, p)) = p
    /\ \A node \in PointNodesOfFile :
          MatVec(Transpose(OPENCV_TO_GLTF_ROT), WholePoint(node.translation))
              = WholePoint(calibration_results.points_3d[node.point])

\* an exported point node whose translation differs from the point it was
\* made for in two coordinates, none of them zero
C17_Witness ==
    /\ called.op = "export_scene_to_gltf"
    /\ \E node \in PointNodesOfFile :
          LET p == WholePoint(calibration_results.points_3d[node.point])
              moved == WholePoint(node.translation)
          IN  /\ \A i \in 1..3 : p[i] # 0
              /\ moved[2] # p[2] /\ moved[3] # p[3]

\* ---- C18
\* R is finite and R R^T = I
Orthonormal(R) ==
    /\ ~AnyNonFinite(MatrixValues(R))
    /\ LET W == [i \in 1..3 |-> WholePoint(R[i])]
       IN  MatMul(W, Transpose(W)) = Identity3

\* C18 as stated: a camera pose whose rotation R contains a non-finite value
\* or is not orthonormal produces no camera node in the export.
C18_DegeneratePoseHasNoCameraNode ==
    \A node \in CameraNodesOfFile :
        Orthonormal(calibration_results.poses[node.img_idx].R)

\* the part of C18 that holds: a pose with a non-finite value in R or in the
\* camera centre produces no camera node.
C18_NonFinitePoseHasNoCameraNode ==
    \A node \in CameraNodesOfFile :
        ~AnyNonFinite(MatrixValues(calibration_results.poses[node.img_idx].R)
                      \cup VectorValues(calibration_results.poses[node.img_idx].t))

\* ---- C19
\* the track id of point m: None also for a point the id list does not reach
TrackIdOfPoint(m) ==
    IF m \in DOMAIN calibration_results.point_ids
    THEN calibration_results.point_ids[m] ELSE None

TracksOfStore(store) ==
    [n \in DOMAIN store |->
        [id |-> store[n].k,
         points |-> [img_idx \in DOMAIN store[n].v |-> store[n].v[img_idx].coords]]]

\* a step that opens the project file the step before has written
OpensWhatWasSaved ==
    /\ called.op = "save_points_as" /\ called.args = <<TRUE>>
    /\ project_file # None
    /\ called'.op = "open_project" /\ called'.args = <<TRUE, "saved">>

\* C20: saving a project and then loading the saved file restores the same
\* ordered image path list, the same tracks (ids, image indices and
\* coordinates), the same display names and the same image dimensions.
C20_SaveThenLoadRestoresProject ==
    [][OpensWhatWasSaved =>
          /\ image_paths' = image_paths
          /\ TracksOfStore(point_data') = TracksOfStore(point_data)
          /\ point_set_names' = point_set_names
          /\ image_dimensions' = image_dimensions]_vars

\* What the load does restore: the paths, the track ids in order (as
\* integers), the names and the dimensions; every restored track is empty.
C20_SaveThenLoadRestoresAllButObservations ==
    [][OpensWhatWasSaved =>
          /\ image_paths' = image_paths
          /\ KeySeq(point_data') = KeySeq(point_data)
          /\ \A n \in DOMAIN point_data' : point_data'[n].v = <<>>
          /\ point_set_names' = point_set_names
          /\ image_dimensions' = image_dimensions
          /\ next_point_set_id' = MaxSetId(project_file.point_data) + 1]_vars

\* ------------------------------------------------------------------ C21
\* the last call opened the hand-made project file
OpenedHandMade == called.op = "open_project" /\ called.args = <<TRUE, "hand_made">>

\* an image of the project without stored dimensions
SomeDimensionsMissing ==
    \E i \in 0..(Len(image_paths) - 1) : i \notin DOMAIN image_dimensions

\* C21: every stored image dimension has width > 0 and height > 0; a load
\* stores no entry whose width or height is not positive or whose key is no
\* integer (of the hand-made file only the entry of image 0 is stored); and
\* a build of the solver input for a project with an image without
\* dimensions writes no database.
C21_StoredDimensionsArePositive ==
    /\ \A i \in DOMAIN image_dimensions :
           image_dimensions[i][1] > 0 /\ image_dimensions[i][2] > 0
    /\ OpenedHandMade => DOMAIN image_dimensions = {0}
    /\ (called.op = "_populate_colmap_database" /\ SomeDimensionsMissing) =>
           (colmap_db = EmptyDb /\ outcome # "database populated")

\* the hand-made file has been loaded, and a build has been refused for the
\* image whose dimensions the load rejected
C21_Witness ==
    /\ called.op = "_populate_colmap_database"
    /\ outcome = "Missing or invalid dimensions"
    /\ DOMAIN image_dimensions = {0}
    /\ Len(image_paths) = 2
    /\ point_set_names = (4 :> <<"g">>)

\* ------------------------------------------------------------------ C22
\* the messages of a run that fails after the sanity checks
FailureMessages ==
    {"Calibration failed: Cleanup error.",
     "Calibration failed: Directory creation error.",
     "Calibration failed: Image dimension error.",
     "Calibration failed: Error populating database/matches.",
     "Image Copy Error",
     "Calibration failed: PyCOLMAP mapping error.",
     "Calibration finished: No reconstruction dictionary.",
     "Calibration finished: No reconstruction models found.",
     "Calibration finished: Insufficient registered images.",
     "Calibration finished with parsing errors."}

RunFailed == called.op = "run_calibration" /\ outcome \in FailureMessages

\* C22: after a calibration run that fails at a step after the sanity checks
\* no calibration result is available and reprojection_errors is empty.
C22_FailedRunLeavesNoResult ==
    RunFailed => (calibration_results = None /\ reprojection_errors = <<>>)

\* The same for every failure but the one while the image names are read
\* from the database.
C22_FailedRunBeforeParsingLeavesNoResult ==
    (RunFailed /\ outcome # "Calibration finished with parsing errors.") =>
        (calibration_results = None /\ reprojection_errors = <<>>)

\* ------------------------------------------------------------------ C23
\* C23: every track in the store has at least one observation.
C23_EveryTrackHasAnObservation ==
    \A n \in DOMAIN point_data : DOMAIN point_data[n].v # {}

\* a track without observations is in the store only after a project has
\* been opened
C23_EmptyTrackOnlyAfterLoad ==
    [][(\A n \in DOMAIN point_data : DOMAIN point_data[n].v # {})
          /\ called'.op # "open_project"
       => (\A n \in DOMAIN point_data' : DOMAIN point_data'[n].v # {})]_vars

\* ------------------------------------------------------------------ C24
\* the maps of the last call of the mapping block
Mapped == called.op = "image_mapping"
IdOfIndex == called.args.original_idx_to_colmap_id
IndexOfId == called.args.colmap_id_to_original_idx

\* C24: the image mapping is one-to-one: different image indices have
\* different solver image ids, and the reverse map sends the id of every
\* mapped index back to that index.
C24_ImageMappingIsOneToOne ==
    Mapped =>
        /\ \A i, j \in DOMAIN IdOfIndex : IdOfIndex[i] = IdOfIndex[j] => i = j
        /\ \A i \in DOMAIN IdOfIndex : IndexOfId[IdOfIndex[i]] = i

\* For an image list without two paths of one basename the mapping is
\* one-to-one, and every index whose name the database lacks is reported.
DistinctBasenames ==
    \A a, b \in DOMAIN image_paths :
        image_paths[a].base = image_paths[b].base => a = b

C24_OneToOneForDistinctBasenames ==
    (Mapped /\ DistinctBasenames) =>
        /\ \A i, j \in DOMAIN IdOfIndex : IdOfIndex[i] = IdOfIndex[j] => i = j
        /\ \A i \in DOMAIN IdOfIndex : IndexOfId[IdOfIndex[i]] = i
        /\ DOMAIN IdOfIndex \cup called.args.reported = 0..(Len(image_paths) - 1)

\* ------------------------------------------------------------------ C25
\* C25: after a project has been saved and the saved file loaded, the id
\* the next created track gets carries no display name: the next id to
\* assign is greater than every id that carries a name or a track.
C25_NextIdCarriesNoName ==
    [][OpensWhatWasSaved =>
          /\ \A t \in DOMAIN point_set_names' : t < next_point_set_id'
          /\ \A t \in Keys(point_data') : t < next_point_set_id']_vars

\* the next id is greater than the id of every track, and it carries a name
\* only after a project has been opened
C25_NextIdIsNamedOnlyAfterLoad ==
    /\ \A t \in Keys(point_data) : t < next_point_set_id
    /\ [][(\A t \in DOMAIN point_set_names : t < next_point_set_id)
             /\ called'.op # "open_project"
          => (\A t \in DOMAIN point_set_names' : t < next_point_set_id')]_vars

\* ------------------------------------------------------------------ C26
\* every entry of errors is the entry of an observation of store
EntriesAreObserved(errors, store) ==
    \A t \in DOMAIN errors :
        \A i \in DOMAIN errors[t] :
            t \in Keys(store) /\ i \in DOMAIN Get(store, t)

\* a step that deletes an observation
DeletesObservation ==
    called'.op = "handle_marker_action" /\ point_data' # point_data

\* C26: removing an observation or deleting a track leaves no reprojection
\* error entry for it: when every entry refers to an observation of the
\* store before the removal, every entry does so after it.
C26_RemovalLeavesNoErrorEntry ==
    [][(DeletesObservation /\ EntriesAreObserved(reprojection_errors, point_data))
          => EntriesAreObserved(reprojection_errors', point_data')]_vars

\* a removal leaves the error entries as they are
C26_RemovalKeepsErrorEntries ==
    [][DeletesObservation => reprojection_errors' = reprojection_errors]_vars

\* ------------------------------------------------------------------ C27
\* the last call is an accepted export of a present result, the dimensions
\* of every registered image known
ExportAttempted ==
    /\ called.op = "export_scene_as" /\ called.args = <<TRUE>>
    /\ calibration_results # None
    /\ \A n \in DOMAIN calibration_results.registered_indices :
           calibration_results.registered_indices[n] \in DOMAIN image_dimensions

\* C27: an export of a present result with known dimensions invokes the
\* exporter and reports its outcome, success or a descriptive failure; it
\* never ends with an unhandled error.
C27_ExportReportsExporterOutcome ==
    ExportAttempted =>
        /\ raised = "none"
        /\ outcome \in {"Scene successfully exported",
                        "Export failed: No valid cameras or points could be processed."}

\* every such export ends with the TypeError of the call of the exporter,
\* and writes no file
C27_ExportEndsWithTypeError ==
    ExportAttempted => (raised = "TypeError" /\ outcome = "Exporting scene")

\* ------------------------------------------------------------------ C28
\* every observation is one of an image of the project
ObservationsInRange ==
    \A n \in DOMAIN point_data :
        \A i \in DOMAIN point_data[n].v : 0 <= i /\ i < Len(image_paths)

\* C28: every observation's image index is an index of the image list, and
\* every track counted by the sanity check of run_calibration has an
\* observation in an image the build iterates over.
C28_CountedTracksAreObservedInImages ==
    /\ ObservationsInRange
    /\ \A n \in DOMAIN point_data :
           \E i \in DOMAIN point_data[n].v : 0 <= i /\ i < Len(image_paths)

\* a project that passes the sanity checks with tracks none of which has an
\* observation
C28_CountedWithoutObservation ==
    /\ PassesSanityChecks
    /\ \A n \in DOMAIN point_data : DOMAIN point_data[n].v = {}

\* ------------------------------------------------------------------ C29
\* the files whose load fails: no file, no JSON, no image_paths, a
\* point_data that is no mapping
FailingFiles == {"missing", "not_json", "no_image_paths", "points_not_a_dict"}

\* a step that opens a file whose load fails
OpensFailingFile ==
    /\ called'.op = "open_project"
    /\ called'.args[1]
    /\ \/ called'.args[2] \in FailingFiles
       \/ called'.args[2] = "saved" /\ project_file = None

\* C29: a load that fails because the file is missing, is no JSON or lacks
\* a list image_paths or a mapping point_data leaves the project unchanged:
\* image paths, tracks, names, dimensions, next track id, calibration result
\* and reprojection errors.
C29_FailedLoadLeavesProjectUnchanged ==
    [][OpensFailingFile =>
          /\ image_paths' = image_paths
          /\ point_data' = point_data
          /\ point_set_names' = point_set_names
          /\ image_dimensions' = image_dimensions
          /\ next_point_set_id' = next_point_set_id
          /\ calibration_results' = calibration_results
          /\ reprojection_errors' = reprojection_errors
          /\ outcome' = "Load Error"]_vars

\* a failed load of a calibrated project with tracks
C29_Witness ==
    /\ called.op = "open_project"
    /\ called.args = <<TRUE, "not_json">>
    /\ outcome = "Load Error"
    /\ calibration_results = SolvedResults
    /\ reprojection_errors # <<>>
    /\ Len(point_data) = MaxTracks
    /\ image_paths # <<>>

\* a left press with the add/move tool has started a drag or a placement
\* that no release has completed yet
GestureUnderWay == view.dragged_marker # None \/ view.is_placing_new_marker

\* the step is a release of the left button
LeftRelease ==
    /\ called'.op = "mouseReleaseEvent"
    /\ called'.args[1] = "left"

\* the signal that finishes the gesture under way
FinishingSignal ==
    IF view.dragged_marker # None THEN "marker_move_finished" ELSE "scene_mouse_press"

\* the release clears the flag of the gesture and sets the transform saved at
\* the press again
ReleaseEndsGesture ==
    /\ view'.dragged_marker = None
    /\ ~view'.is_placing_new_marker
    /\ view'.transform = view.original_transform_before_action
    /\ view'.original_transform_before_action = None

\* the coordinate stored for some observation differs after the step
CoordinateChanges ==
    \E t \in Keys(point_data) \cap Keys(point_data') :
    \E i \in DOMAIN Get(point_data, t) \cap DOMAIN Get(point_data', t) :
        Get(point_data', t)[i].coords # Get(point_data, t)[i].coords

\* C30: the left release that follows a left press which started a marker
\* drag or a placement with the add/move tool clears the flag of the gesture,
\* restores the transform saved at the press and emits exactly one signal,
\* marker_move_finished for a drag and scene_mouse_press for a placement; and
\* a stored coordinate changes only in a release that finishes a drag.
C30_ReleaseCompletesGesture ==
    [][/\ (LeftRelease /\ GestureUnderWay) =>
              /\ ReleaseEndsGesture
              /\ view'.emitted = <<FinishingSignal>>
       /\ CoordinateChanges =>
              /\ LeftRelease
              /\ view.dragged_marker # None
              /\ view'.emitted = <<"marker_move_finished">>]_vars

\* C30, with the tool still add/move at the release: the release ends the
\* gesture and emits its one signal. With another tool at the release it
\* ends the gesture and emits nothing.
C30_ReleaseEmitsWhileAddMove ==
    [][(LeftRelease /\ GestureUnderWay) =>
          /\ ReleaseEndsGesture
          /\ view'.emitted =
                 IF tool_mode = "add_move" THEN <<FinishingSignal>> ELSE <<>>]_vars

\* C30, its last part: a stored coordinate changes only in a release that
\* finishes a drag.
C30_CoordinateChangesOnlyByFinishedDrag ==
    [][CoordinateChanges =>
          /\ LeftRelease
          /\ view.dragged_marker # None
          /\ view'.emitted = <<"marker_move_finished">>]_vars

\* a drag has been released with the delete tool active: no signal, the
\* marker away from the stored coordinate
C30_DragDroppedSilently ==
    /\ called.op = "mouseReleaseEvent"
    /\ called.args[1] = "left"
    /\ view.emitted = <<>>
    /\ view.dragged_marker = None
    /\ tool_mode = "delete"
    /\ \E t \in Keys(point_data) : \E i \in DOMAIN Get(point_data, t) :
           Get(point_data, t)[i].marker.pos # Get(point_data, t)[i].coords

\* a drag finished with the view zoomed for precision and the wheel turned
\* meanwhile: the coordinate moved, the transform as before the press
C30_DragFinished ==
    /\ called.op = "mouseReleaseEvent"
    /\ view.emitted = <<"marker_move_finished">>
    /\ view.transform = QTransform(100)
    /\ \E t \in Keys(point_data) : \E i \in DOMAIN Get(point_data, t) :
           Get(point_data, t)[i].coords = P2
====
